---- MODULE Spec2Model ----
(***************************************************************************)
(* A model of rustin's partial parser (src/src/parser.rs) and of the parts *)
(* of the semantic gravity engine (src/src/gravity.rs) that consume it.    *)
(*                                                                         *)
(* Source text is a sequence of characters.  The characters the chunk scan *)
(* distinguishes are kept as they are ("{", "}", ";", the quotes, the      *)
(* backslash, the newline); a run of ASCII text without any of them is     *)
(* one character of the model: "fn a" is the header `fn a()` of a function *)
(* named a.  "U+4E2D" is an identifier character outside ASCII, one char   *)
(* and three bytes in UTF-8.  "mod a" is the header `mod a` of a module    *)
(* declaration or of an inline module, "a()" is a call of a, "x.m()" is    *)
(* the method call `x.m()`, and "std::fs" is the qualified path            *)
(* `std::fs`.                                                              *)
(***************************************************************************)
EXTENDS Integers, Sequences, FiniteSets, TLC

VARIABLES
    fsPath,       \* the path handed to parse_file, a sequence of components
    fsReadable,   \* whether std::fs::read_to_string succeeds on fsPath
    fsContent,    \* the text of the file at fsPath
    fsRoot,       \* the project root handed to parse_project / analyze_project
    fsRootExists, \* whether the root can be traversed
    fsTree,       \* the files below the root, in the order WalkDir yields them
    gravity,      \* the fields of the SemanticGravity instance
    tyText,       \* the type text handed to normalize_type_name
    pc,           \* "start", or the operation that has run
    result        \* what the operation returned (or that it panicked)

vars == <<fsPath, fsReadable, fsContent, fsRoot, fsRootExists, fsTree, gravity,
          tyText, pc, result>>

-----------------------------------------------------------------------------
(* Bounds of the model *)

\* A text is the concatenation of at most MaxFrags fragments.
MaxFrags == 3

\* A type text has at most MaxRefs reference markers before the type name.
MaxRefs == 3

\* A text handed to the chunk scan by itself has at most MaxScanLen characters.
MaxScanLen == 5

\* get_significant_hubs and get_hotspots are asked for at most MaxTop entries.
MaxTop == 2

\* A file far from the entry file has the distance LargeDistance.
LargeDistance == 1000

-----------------------------------------------------------------------------
(* Text: characters, bytes, lines *)

FnHeads == {"fn a", "fn b"}
ModHeads == {"mod __wrapper__", "mod a", "mod b"}
Idents ==
    { "U+4E2D", "x", "std::fs", "std::io", "foo::x", "io::x", "T::x",
      "super::a", "crate::a", "self::a", "U+E9a::x" }
Calls == {"a()", "b()", "x.m()", "x.clone()", "Some(x)"}
MultiByte == {"U+4E2D"}
Whitespace == {"\n", " "}

\* The identifier a header introduces.
HeadName(c) ==
    CASE c = "fn a" -> "a"
      [] c = "fn b" -> "b"
      [] c = "mod __wrapper__" -> "__wrapper__"
      [] c = "mod a" -> "a"
      [] c = "mod b" -> "b"
      [] OTHER -> ""

\* The keyword (with the blank after it) that the text of a character starts with.
KeywordOf(c) ==
    IF c \in FnHeads THEN "fn "
    ELSE IF c \in ModHeads THEN "mod "
    ELSE ""

\* Width of a character in UTF-8.
len_utf8(c) == IF c \in MultiByte THEN 3 ELSE IF c = "U+E9" THEN 2 ELSE 1

RECURSIVE ByteLen(_)
ByteLen(text) ==
    IF text = <<>> THEN 0 ELSE len_utf8(Head(text)) + ByteLen(Tail(text))

\* str::is_char_boundary: byte index n starts a character, or is the end.
is_char_boundary(text, n) ==
    \E k \in 0..Len(text) : ByteLen(SubSeq(text, 1, k)) = n

\* &text[..n] for a byte index n that is a char boundary.
StrPrefix(text, n) ==
    SubSeq(text, 1, CHOOSE k \in 0..Len(text) : ByteLen(SubSeq(text, 1, k)) = n)

RECURSIVE CountNewlines(_)
CountNewlines(text) ==
    IF text = <<>> THEN 0
    ELSE (IF Head(text) = "\n" THEN 1 ELSE 0) + CountNewlines(Tail(text))

\* str::lines().count(): a last line without its newline counts when not empty.
LinesCount(text) ==
    CountNewlines(text)
        + (IF text # <<>> /\ text[Len(text)] # "\n" THEN 1 ELSE 0)

RECURSIVE trim_start(_)
trim_start(text) ==
    IF text # <<>> /\ Head(text) \in Whitespace THEN trim_start(Tail(text)) ELSE text

RECURSIVE trim_end(_)
trim_end(text) ==
    IF text # <<>> /\ text[Len(text)] \in Whitespace
    THEN trim_end(SubSeq(text, 1, Len(text) - 1))
    ELSE text

trim(text) == trim_end(trim_start(text))

-----------------------------------------------------------------------------
(* PartialParser::split_into_items and its helpers *)

\* The item-introducing tokens of looks_like_item, in the order of the source.
keywords ==
    << "fn ", "pub ", "struct ", "enum ", "impl ", "mod ", "trait ", "type ",
       "const ", "static ", "use ", "macro_rules!", "#[", "async ", "unsafe " >>

looks_like_item(text) ==
    LET trimmed == trim_start(text) IN
        /\ trimmed # <<>>
        /\ \E k \in 1..Len(keywords) : KeywordOf(Head(trimmed)) = keywords[k]

ItemChunk(text, start_line) == [text |-> text, start_line |-> start_line]

\* The scanner's locals when the loop starts.  current_start and i count
\* characters from 0, as in the source; panicked records that a slice of
\* content at a byte index inside a character aborted the scan.
ScanInit ==
    [ chunks |-> <<>>, current_start |-> 0, brace_depth |-> 0,
      in_string |-> FALSE, in_char |-> FALSE, escape_next |-> FALSE,
      panicked |-> FALSE ]

\* chars[from..=to], both 0-based.
CharSlice(chars, from, to) == SubSeq(chars, from + 1, to + 1)

\* A cut that pushes the chunk and leaves the cut point where it was.
CutAt_keeps_cut_point(content, st, i, itemOnly) ==
    LET chunk_text == CharSlice(content, st.current_start, i) IN
    IF ~is_char_boundary(content, st.current_start)
    THEN [st EXCEPT !.panicked = TRUE]
    ELSE IF /\ trim(chunk_text) # <<>>
            /\ (itemOnly => looks_like_item(trim(chunk_text)))
         THEN [st EXCEPT !.chunks =
                  Append(@, ItemChunk(chunk_text,
                             LinesCount(StrPrefix(content, st.current_start))))]
         ELSE st

\* The cut made at character i: the chunk chars[current_start..=i] is pushed
\* when `keep` accepts it; content[..current_start] is sliced by BYTE index
\* current_start to count the lines before the chunk, whether or not the
\* chunk is kept.
CutAt(content, st, i, itemOnly) ==
    LET chunk_text == CharSlice(content, st.current_start, i) IN
    IF ~is_char_boundary(content, st.current_start)
    THEN [st EXCEPT !.panicked = TRUE]
    ELSE LET start_line == LinesCount(StrPrefix(content, st.current_start))
             keep == /\ trim(chunk_text) # <<>>
                     /\ (itemOnly => looks_like_item(trim(chunk_text)))
         IN [st EXCEPT
                !.chunks = IF keep THEN Append(@, ItemChunk(chunk_text, start_line))
                                   ELSE @,
                !.current_start = i + 1]

\* One iteration of `while i < chars.len()`, for the character c = chars[i].
ScanStep(content, st, i) ==
    LET c == content[i + 1] IN
    IF st.escape_next THEN [st EXCEPT !.escape_next = FALSE]
    ELSE IF c = "\\" THEN [st EXCEPT !.escape_next = TRUE]
    ELSE
        LET in_string == IF ~st.in_char /\ c = "\"" THEN ~st.in_string
                         ELSE st.in_string
            in_char == IF ~(~st.in_char /\ c = "\"") /\ ~st.in_string /\ c = "'"
                       THEN ~st.in_char ELSE st.in_char
            s1 == [st EXCEPT !.in_string = in_string, !.in_char = in_char]
        IN  IF in_string \/ in_char THEN s1
            ELSE IF c = "{" THEN [s1 EXCEPT !.brace_depth = @ + 1]
            ELSE IF c = "}" THEN
                LET s2 == [s1 EXCEPT !.brace_depth = @ - 1] IN
                IF s2.brace_depth = 0 THEN CutAt(content, s2, i, FALSE) ELSE s2
            ELSE IF c = ";" /\ s1.brace_depth = 0 THEN CutAt(content, s1, i, TRUE)
            ELSE s1

RECURSIVE ScanFrom(_, _, _)
ScanFrom(content, st, i) ==
    IF st.panicked \/ i >= Len(content) THEN st
    ELSE ScanFrom(content, ScanStep(content, st, i), i + 1)

\* "Handle any remaining content" after the loop.
ScanRest(content, st) ==
    IF st.panicked \/ ~(st.current_start < Len(content)) THEN st
    ELSE LET remaining == SubSeq(content, st.current_start + 1, Len(content)) IN
         IF trim(remaining) # <<>> /\ looks_like_item(trim(remaining))
         THEN IF ~is_char_boundary(content, st.current_start)
              THEN [st EXCEPT !.panicked = TRUE]
              ELSE [st EXCEPT !.chunks =
                        Append(@, ItemChunk(remaining,
                                   LinesCount(StrPrefix(content, st.current_start))))]
         ELSE st

\* The scanner's locals when split_into_items returns (or panics).
split_scan(content) == ScanRest(content, ScanFrom(content, ScanInit, 0))

\* split_into_items: the chunks, or a panic.
split_into_items(content) ==
    LET st == split_scan(content) IN
    IF st.panicked THEN [tag |-> "Panic", chunks |-> <<>>]
    ELSE [tag |-> "Ok", chunks |-> st.chunks]

-----------------------------------------------------------------------------
(* The single-unit parser (syn::parse_file) on the characters of the model, *)
(* and ItemVisitor, which lists the items of the tree it returns.           *)

Span(start_line, end_line) == [start_line |-> start_line, end_line |-> end_line]

\* Span::default()
SpanDefault == Span(0, 0)

\* Option: None, and Some(x)
None == <<>>
Some(x) == <<x>>

\* The ParsedItem that ItemVisitor::visit_item pushes for the item whose
\* header is c (a module is inline when it has a body): every arm of the
\* match gives it span Span::default() and file_path self.path.  The
\* headers of the model have no pub, no attribute, no doc comment, no
\* parameter and no return type.
visit_item(c, p, inline) ==
    [ kind |-> IF c \in ModHeads THEN [tag |-> "Mod", inline |-> inline]
               ELSE [tag |-> "Function", parameters |-> <<>>,
                     return_type |-> None],
      name |-> HeadName(c),
      visibility |-> "Private",
      span |-> SpanDefault,
      file_path |-> p,
      attributes |-> <<>>,
      doc_comment |-> None ]

SynFail == [ok |-> FALSE, pos |-> 0, items |-> <<>>]

\* The tokens of a text from character i on: whitespace separates tokens
\* and is dropped, a string literal "..." is the one token "str" (a
\* backslash in it escapes the next character).  An unterminated literal or
\* a backslash outside a literal is a lexical error.
RECURSIVE Lex(_, _, _)
Lex(text, i, inStr) ==
    IF i > Len(text) THEN [ok |-> ~inStr, toks |-> <<>>]
    ELSE LET c == text[i] IN
         IF inStr THEN
            IF c = "\\" THEN Lex(text, i + 2, TRUE)
            ELSE IF c = "\"" THEN
                LET r == Lex(text, i + 1, FALSE) IN [r EXCEPT !.toks = <<"str">> \o @]
            ELSE Lex(text, i + 1, TRUE)
         ELSE IF c = "\"" THEN Lex(text, i + 1, TRUE)
         ELSE IF c = "\\" THEN [ok |-> FALSE, toks |-> <<>>]
         ELSE IF c \in Whitespace THEN Lex(text, i + 1, FALSE)
         ELSE LET r == Lex(text, i + 1, FALSE) IN [r EXCEPT !.toks = <<c>> \o @]

\* Each operator parses from token i of t and returns whether it succeeded,
\* the index after what it consumed, and the items visit_item pushed, the
\* item before the items nested in it (visit_item pushes, then recurses).
RECURSIVE SynItem(_, _, _), SynItems(_, _, _, _), SynBlock(_, _, _), SynExpr(_, _)

\* An item: `fn name() { block }`, `mod name { items }` or `mod name;`.
SynItem(t, i, p) ==
    IF i + 1 > Len(t) THEN SynFail
    ELSE IF t[i] \in ModHeads /\ t[i + 1] = ";" THEN
        [ok |-> TRUE, pos |-> i + 2, items |-> <<visit_item(t[i], p, FALSE)>>]
    ELSE IF t[i + 1] # "{" THEN SynFail
    ELSE IF t[i] \in FnHeads THEN
        LET b == SynBlock(t, i + 2, p) IN
        IF b.ok THEN [b EXCEPT !.items = <<visit_item(t[i], p, TRUE)>> \o @]
        ELSE SynFail
    ELSE IF t[i] \in ModHeads THEN
        LET b == SynItems(t, i + 2, p, TRUE) IN
        IF b.ok THEN [b EXCEPT !.items = <<visit_item(t[i], p, TRUE)>> \o @]
        ELSE SynFail
    ELSE SynFail

\* Items up to the end of the text (a file) or up to the closing brace of
\* the module that holds them (inner), which is consumed.
SynItems(t, i, p, inner) ==
    IF i > Len(t) THEN
        IF inner THEN SynFail ELSE [ok |-> TRUE, pos |-> i, items |-> <<>>]
    ELSE IF t[i] = "}" THEN
        IF inner THEN [ok |-> TRUE, pos |-> i + 1, items |-> <<>>] ELSE SynFail
    ELSE LET r == SynItem(t, i, p) IN
         IF ~r.ok THEN SynFail
         ELSE LET rest == SynItems(t, r.pos, p, inner) IN
              IF rest.ok THEN [rest EXCEPT !.items = r.items \o @] ELSE SynFail

\* An expression that is not a block: a string literal, a call, an
\* identifier or path, or the struct literal `x {}` or `x { x }` of an
\* identifier x.  Returns the index after it, 0 when there is none.
SynExpr(t, i) ==
    IF i > Len(t) THEN 0
    ELSE IF t[i] = "str" \/ t[i] \in Calls THEN i + 1
    ELSE IF t[i] \notin Idents THEN 0
    ELSE IF i + 1 <= Len(t) /\ t[i + 1] = "{" THEN
        IF i + 2 <= Len(t) /\ t[i + 2] = "}" THEN i + 3
        ELSE IF i + 3 <= Len(t) /\ t[i + 2] \in Idents /\ t[i + 3] = "}" THEN i + 4
        ELSE 0
    ELSE i + 1

\* The statements of a block up to its closing brace, which is consumed:
\* empty statements, nested items, nested blocks, expression statements and
\* a last expression without semicolon.
SynBlock(t, i, p) ==
    IF i > Len(t) THEN SynFail
    ELSE IF t[i] = "}" THEN [ok |-> TRUE, pos |-> i + 1, items |-> <<>>]
    ELSE IF t[i] = ";" THEN SynBlock(t, i + 1, p)
    ELSE IF t[i] \in FnHeads \cup ModHeads \/ t[i] = "{" THEN
        LET r == IF t[i] = "{" THEN SynBlock(t, i + 1, p) ELSE SynItem(t, i, p) IN
        IF ~r.ok THEN SynFail
        ELSE LET rest == SynBlock(t, r.pos, p) IN
             IF rest.ok THEN [rest EXCEPT !.items = r.items \o @] ELSE SynFail
    ELSE LET j == SynExpr(t, i) IN
         IF j = 0 \/ j > Len(t) THEN SynFail
         ELSE IF t[j] = ";" THEN SynBlock(t, j + 1, p)
         ELSE IF t[j] = "}" THEN [ok |-> TRUE, pos |-> j + 1, items |-> <<>>]
         ELSE SynFail

\* syn::parse_file(text) followed by extract_items(&file, path): Ok with the
\* items of the file, or Err.
syn_parse_file(text, p) ==
    LET lexed == Lex(text, 1, FALSE) IN
    IF lexed.ok THEN SynItems(lexed.toks, 1, p, FALSE) ELSE SynFail

-----------------------------------------------------------------------------
(* PartialParser: parse_chunk, guess_item_name, parse_partial, parse_file *)

\* chars().take(n).collect()
Take(text, n) == SubSeq(text, 1, IF Len(text) < n THEN Len(text) ELSE n)

RawTextErrorLen == 200
RawTextItemLen == 500

\* The message of ParserError::Parse, "Parse error in {file}: {message}".
ParseErrorMessage == "Parse error in file"

\* parse_chunk: the chunk is wrapped in `mod __wrapper__ { ... }` and handed
\* to the single-unit parser.
parse_chunk(chunk, p) ==
    LET wrapped == <<"mod __wrapper__", " ", "{", " ">> \o chunk \o <<" ", "}">>
        r == syn_parse_file(wrapped, p)
    IN  IF r.ok THEN [tag |-> "Ok", items |-> r.items]
        ELSE [tag |-> "Err", items |-> <<>>]

\* guess_item_name: the identifier of the first `keyword\s+(\w+)` match in
\* the text, else "<unknown>".
name_pattern_keywords ==
    { "fn ", "struct ", "enum ", "impl ", "mod ", "trait ", "type ", "const ",
      "static ", "macro_rules!" }

guess_item_name(text) ==
    LET hits == {k \in 1..Len(text) : KeywordOf(text[k]) \in name_pattern_keywords} IN
    IF hits = {} THEN "<unknown>"
    ELSE HeadName(text[CHOOSE k \in hits : \A j \in hits : k <= j])

ParsedFile(p, items, errors, module_path) ==
    [path |-> p, items |-> items, parse_errors |-> errors, module_path |-> module_path]

\* A failed chunk's span without the chunk's line count: it ends where it starts.
chunk_error_span_no_line_count(chunk) ==
    Span(chunk.start_line, chunk.start_line)

\* The span given to the ParseError and to the Unknown item of a failed chunk.
chunk_error_span(chunk) ==
    Span(chunk.start_line, chunk.start_line + LinesCount(chunk.text))

\* What the Ok arm of parse_partial's loop appends for a chunk: the items
\* of the chunk with both span lines moved by chunk.start_line.
chunk_ok_items(parsed_items, chunk) ==
    [k \in 1..Len(parsed_items) |->
        [parsed_items[k] EXCEPT
            !.span = Span(@.start_line + chunk.start_line,
                          @.end_line + chunk.start_line)]]

\* What the Err arm appends to the items: one Unknown item.
chunk_err_items(chunk, p) ==
    << [ kind |-> [tag |-> "Unknown",
                   raw_text |-> Take(chunk.text, RawTextItemLen),
                   error |-> ParseErrorMessage],
         name |-> guess_item_name(chunk.text),
         visibility |-> "Private",
         span |-> chunk_error_span(chunk),
         file_path |-> p,
         attributes |-> <<>>,
         doc_comment |-> None ] >>

\* What the Err arm appends to the errors: one ParseError.
chunk_err_errors(chunk) ==
    << [ message |-> ParseErrorMessage,
         span |-> chunk_error_span(chunk),
         raw_text |-> Take(chunk.text, RawTextErrorLen) ] >>

\* The loop of parse_partial over chunks k..Len(chunks): [items, errors].
RECURSIVE parse_chunks(_, _, _)
parse_chunks(chunks, k, p) ==
    IF k > Len(chunks) THEN [items |-> <<>>, errors |-> <<>>]
    ELSE LET chunk == chunks[k]
             r == parse_chunk(chunk.text, p)
             rest == parse_chunks(chunks, k + 1, p)
         IN  IF r.tag = "Ok"
             THEN [rest EXCEPT !.items = chunk_ok_items(r.items, chunk) \o @]
             ELSE [items |-> chunk_err_items(chunk, p) \o rest.items,
                   errors |-> chunk_err_errors(chunk) \o rest.errors]

NoFile == ParsedFile(<<>>, <<>>, <<>>, <<>>)

parse_partial(p, content, module_path) ==
    LET split == split_into_items(content) IN
    IF split.tag = "Panic" THEN [tag |-> "Panic", file |-> NoFile]
    ELSE LET r == parse_chunks(split.chunks, 1, p) IN
         [tag |-> "Ok", file |-> ParsedFile(p, r.items, r.errors, module_path)]

\* Path components: RootDir, CurDir and ParentDir are not Component::Normal.
NotNormal == {"/", ".", ".."}

\* The names derive_module_path drops.
RootMarkers == {"src", "lib.rs", "main.rs", "mod.rs"}

\* s.strip_suffix(".rs").unwrap_or(s), on the file names of the model.
strip_suffix_rs(s) ==
    CASE s = "a.rs" -> "a"
      [] s = "b.rs" -> "b"
      [] s = "lib.rs" -> "lib"
      [] s = "main.rs" -> "main"
      [] s = "mod.rs" -> "mod"
      [] OTHER -> s

RECURSIVE derive_module_path(_)
derive_module_path(p) ==
    IF p = <<>> THEN <<>>
    ELSE LET s == Head(p) IN
         (IF s \notin NotNormal /\ s \notin RootMarkers
          THEN <<strip_suffix_rs(s)>> ELSE <<>>)
         \o derive_module_path(Tail(p))

\* parse_file: Err when the file cannot be read; the items of the whole
\* file when it parses; otherwise partial parsing.
parse_file(p, canRead, content) ==
    IF ~canRead THEN [tag |-> "Err", file |-> NoFile]
    ELSE LET module_path == derive_module_path(p)
             whole == syn_parse_file(content, p)
         IN  IF whole.ok
             THEN [tag |-> "Ok",
                   file |-> ParsedFile(p, whole.items, <<>>, module_path)]
             ELSE parse_partial(p, content, module_path)

-----------------------------------------------------------------------------
(* PartialParser::parse_project *)

\* path.extension() == "rs", on the file names of the model.
has_rs_extension(p) ==
    p # <<>> /\ p[Len(p)] \in {"a.rs", "b.rs", "lib.rs", "main.rs", "mod.rs"}

\* path.to_string_lossy().contains("/target/"): a component "target" with a
\* separator before it and after it.
contains_target(p) == \E i \in 2..(Len(p) - 1) : p[i] = "target"

\* The entries of the walk that pass the filter of parse_project.  A root
\* that cannot be traversed yields one error entry, which filter_map drops.
walk_entries(root, exists, tree) ==
    IF ~exists THEN <<>>
    ELSE SelectSeq([k \in 1..Len(tree) |-> [tree[k] EXCEPT !.path = root \o @]],
                   LAMBDA e : has_rs_extension(e.path) /\ ~contains_target(e.path))

\* The loop of parse_project over entries: parse_file of every entry, in
\* order.
parse_entries(entries) ==
    [k \in 1..Len(entries) |->
        parse_file(entries[k].path, entries[k].readable, entries[k].content)]

\* What the loop of parse_project leaves: a file whose parse_file returns
\* Err is skipped and the ParsedFile of every other file is pushed, in
\* order; a panic of parse_file unwinds through the loop, and nothing is
\* returned.
collect_files(parsed) ==
    IF \E k \in 1..Len(parsed) : parsed[k].tag = "Panic"
    THEN [tag |-> "Panic", files |-> <<>>]
    ELSE LET pushed == SelectSeq(parsed, LAMBDA r : r.tag = "Ok")
         IN  [tag |-> "Ok", files |-> [k \in 1..Len(pushed) |-> pushed[k].file]]

parse_project(root, exists, tree) ==
    collect_files(parse_entries(walk_entries(root, exists, tree)))

-----------------------------------------------------------------------------
(* SemanticGravity::normalize_type_name.  A type text is a sequence of      *)
(* characters; "mut" and "T" are the word mut and a type name, each one      *)
(* character of the model.                                                   *)

\* name.trim_start_matches('&')
RECURSIVE trim_start_amp(_)
trim_start_amp(name) ==
    IF name # <<>> /\ Head(name) = "&" THEN trim_start_amp(Tail(name)) ELSE name

\* name.trim_start_matches("mut ")
RECURSIVE trim_start_mut(_)
trim_start_mut(name) ==
    IF Len(name) >= 2 /\ name[1] = "mut" /\ name[2] = " "
    THEN trim_start_mut(SubSeq(name, 3, Len(name)))
    ELSE name

\* if let Some(idx) = name.find('<') { name = name[..idx] }
truncate_at_generic(name) ==
    LET at == {k \in 1..Len(name) : name[k] = "<"} IN
    IF at = {} THEN name
    ELSE SubSeq(name, 1, (CHOOSE k \in at : \A j \in at : k <= j) - 1)

normalize_type_name(ty) ==
    trim(truncate_at_generic(trim_start_mut(trim_start_amp(ty))))

-----------------------------------------------------------------------------
(* SemanticGravity: the structures analyze_project derives from the files   *)

\* weights
CROSS_MODULE_USAGE == 50
PUB_VISIBILITY == 20
GENERIC_DEPTH == 15
IS_TEST_PENALTY == -80
SITE_BONUS == 30
UTILITY_PENALTY == -20
ENTRY_DISTANCE_PENALTY == -5
IMPL_RICHNESS == 5
TRAIT_IMPL == 3

\* HashMap: a function on the set of its keys.
EmptyMap == [k \in {} |-> k]

\* map.insert(k, v)
Insert(map, k, v) == [x \in DOMAIN map \cup {k} |-> IF x = k THEN v ELSE map[x]]

\* map.entry(k).or_default().push(v)
Push(map, k, v) ==
    Insert(map, k, Append(IF k \in DOMAIN map THEN map[k] ELSE <<>>, v))

\* The files on disk: those of the tree below root, when the root exists.
DiskOf(root, exists, tree) ==
    IF exists
    THEN { [tree[k] EXCEPT !.path = root \o @] : k \in 1..Len(tree) }
    ELSE {}

\* Path::exists
path_exists(disk, p) == \E f \in disk : f.path = p

\* std::fs::read_to_string(p).unwrap_or_default()
read_to_string_or_default(disk, p) ==
    IF \E f \in disk : f.path = p /\ f.readable
    THEN (CHOOSE f \in disk : f.path = p /\ f.readable).content
    ELSE <<>>

\* str::lines(): the text between newlines; no line after a last newline.
RECURSIVE Lines(_)
Lines(text) ==
    IF text = <<>> THEN <<>>
    ELSE LET breaks == {k \in 1..Len(text) : text[k] = "\n"} IN
         IF breaks = {} THEN <<text>>
         ELSE LET k == CHOOSE b \in breaks : \A c \in breaks : b <= c IN
              <<SubSeq(text, 1, k - 1)>> \o Lines(SubSeq(text, k + 1, Len(text)))

Keywords ==
    { "if", "else", "match", "for", "while", "loop", "return", "break",
      "continue", "let", "mut", "ref", "fn", "struct", "enum", "impl", "trait",
      "type", "where", "use", "mod", "pub", "const", "static", "unsafe",
      "async", "await", "move", "dyn", "Some", "None", "Ok", "Err", "Self",
      "self", "super", "crate", "as", "in", "true", "false" }

is_keyword(s) == s \in Keywords

PRELUDE_METHODS ==
    {
      "iter", "into_iter", "map", "filter", "collect", "fold", "find",
      "any", "all", "take", "skip", "enumerate", "zip", "chain", "flatten",
      "flat_map", "cloned", "copied", "unwrap", "unwrap_or",
      "unwrap_or_else", "unwrap_or_default", "expect", "ok", "err",
      "is_some", "is_none", "is_ok", "is_err", "map_err", "and_then",
      "or_else", "ok_or", "ok_or_else", "clone", "to_string", "to_owned",
      "into", "from", "default", "new", "len", "is_empty", "push", "pop",
      "get", "get_mut", "insert", "remove", "contains", "clear", "extend",
      "as_ref", "as_mut", "borrow", "borrow_mut", "deref", "deref_mut",
      "trim", "split", "starts_with", "ends_with", "contains", "replace",
      "to_lowercase", "to_uppercase", "chars", "bytes", "lines", "fmt",
      "write", "writeln", "format", "print", "println", "eprint",
      "eprintln", "eq", "ne", "cmp", "partial_cmp", "lt", "le", "gt", "ge",
      "min", "max", "drop", "take", "replace", "swap", "mem" }

is_prelude_method(s) == s \in PRELUDE_METHODS

\* build_file_module_map: the map is cleared, then every parsed file gets
\* its module name, "crate" followed by the segments of module_path (joined
\* by "::" in the source); a later file with the same path wins.
\* A module map that leaves out the files of the crate root (the files with
\* an empty module_path).
RECURSIVE insert_file_modules_below_root(_, _, _)
insert_file_modules_below_root(map, files, k) ==
    IF k > Len(files) THEN map
    ELSE insert_file_modules_below_root(
            IF files[k].module_path = <<>> THEN map
            ELSE Insert(map, files[k].path, <<"crate">> \o files[k].module_path),
            files, k + 1)

RECURSIVE insert_file_modules(_, _, _)
insert_file_modules(map, files, k) ==
    IF k > Len(files) THEN map
    ELSE insert_file_modules(
            Insert(map, files[k].path, <<"crate">> \o files[k].module_path),
            files, k + 1)

build_file_module_map(g) ==
    [g EXCEPT !.file_to_module = insert_file_modules(EmptyMap, g.files, 1)]

\* format!("{}.rs", mod_name), on the module names of the model.
rs_file(mod_name) ==
    CASE mod_name = "a" -> "a.rs"
      [] mod_name = "b" -> "b.rs"
      [] mod_name = "__wrapper__" -> "__wrapper__.rs"
      [] OTHER -> mod_name

\* Path::parent: the path without its last component.
parent(p) == SubSeq(p, 1, Len(p) - 1)

\* resolve_mod_path: name.rs beside the declaring file when it exists, else
\* name/mod.rs when that exists, else name.rs.
resolve_mod_path(disk, parent_path, mod_name) ==
    LET direct == parent(parent_path) \o <<rs_file(mod_name)>>
        nested == parent(parent_path) \o <<mod_name, "mod.rs">>
    IN  IF path_exists(disk, direct) THEN direct
        ELSE IF path_exists(disk, nested) THEN nested
        ELSE direct

\* The entry file: src/lib.rs below the root when it exists, else src/main.rs.
entry_file(disk, root) ==
    IF path_exists(disk, root \o <<"src", "lib.rs">>)
    THEN root \o <<"src", "lib.rs">>
    ELSE root \o <<"src", "main.rs">>

ModuleNode(name, p, children, depth) ==
    [name |-> name, path |-> p, children |-> children, depth |-> depth]

\* ModuleTree::default()
ModuleTreeDefault == [root |-> ModuleNode("", <<>>, <<>>, 0)]

\* The children of one file, all with the depth of a module of the crate root.
RECURSIVE mod_children_of_file_at_depth_one(_, _, _)
mod_children_of_file_at_depth_one(disk, file, k) ==
    IF k > Len(file.items) THEN <<>>
    ELSE LET item == file.items[k] IN
         (IF item.kind.tag = "Mod"
          THEN << ModuleNode(item.name,
                             IF item.kind.inline THEN file.path
                             ELSE resolve_mod_path(disk, file.path, item.name),
                             <<>>, 1) >>
          ELSE <<>>)
         \o mod_children_of_file_at_depth_one(disk, file, k + 1)

\* The children build_module_tree pushes for the items k.. of one file.
RECURSIVE mod_children_of_file(_, _, _)
mod_children_of_file(disk, file, k) ==
    IF k > Len(file.items) THEN <<>>
    ELSE LET item == file.items[k] IN
         (IF item.kind.tag = "Mod"
          THEN << ModuleNode(item.name,
                             IF item.kind.inline THEN file.path
                             ELSE resolve_mod_path(disk, file.path, item.name),
                             <<>>, Len(file.module_path) + 1) >>
          ELSE <<>>)
         \o mod_children_of_file(disk, file, k + 1)

RECURSIVE mod_children(_, _, _)
mod_children(disk, files, k) ==
    IF k > Len(files) THEN <<>>
    ELSE mod_children_of_file(disk, files[k], 1) \o mod_children(disk, files, k + 1)

build_module_tree(g, disk, root) ==
    [g EXCEPT !.module_tree =
        [root |-> ModuleNode("crate", entry_file(disk, root),
                             mod_children(disk, g.files, 1), 0)]]

\* build_impl_map: the map is cleared, then every Impl item is pushed under
\* its normalised self type, in file-then-item order.
RECURSIVE push_impls(_, _, _)
push_impls(map, items, k) ==
    IF k > Len(items) THEN map
    ELSE push_impls(
            IF items[k].kind.tag = "Impl"
            THEN Push(map, normalize_type_name(items[k].kind.self_type), items[k])
            ELSE map,
            items, k + 1)

\* The items of all files, in file-then-item order (flat_map(|f| &f.items)).
RECURSIVE all_items(_, _)
all_items(files, k) ==
    IF k > Len(files) THEN <<>> ELSE files[k].items \o all_items(files, k + 1)

build_impl_map(g) ==
    [g EXCEPT !.impl_map = push_impls(EmptyMap, all_items(g.files, 1), 1)]

\* extract_fn_name: the name after the first `fn` of the line, if any.
extract_fn_name(line) ==
    LET hits == {k \in 1..Len(line) : line[k] \in FnHeads} IN
    IF hits = {} THEN None
    ELSE Some(HeadName(line[CHOOSE k \in hits : \A j \in hits : k <= j]))

\* The names call_pattern `(\w+)\s*\(` captures in the text of a character:
\* the name of a function header `fn a()`, of a call and of a method call.
call_names(c) ==
    CASE c \in FnHeads -> <<HeadName(c)>>
      [] c = "a()" -> <<"a">>
      [] c = "b()" -> <<"b">>
      [] c = "x.m()" -> <<"m">>
      [] c = "x.clone()" -> <<"clone">>
      [] c = "Some(x)" -> <<"Some">>
      [] OTHER -> <<>>

\* The names method_pattern `\.(\w+)\s*\(` captures in a character.
method_names(c) ==
    CASE c = "x.m()" -> <<"m">>
      [] c = "x.clone()" -> <<"clone">>
      [] OTHER -> <<>>

\* The captures of a pattern in a line, from left to right.
RECURSIVE captures_iter(_, _)
captures_iter(names_of(_), line) ==
    IF line = <<>> THEN <<>>
    ELSE names_of(Head(line)) \o captures_iter(names_of, Tail(line))

CallSite(caller, file, line) == [caller |-> caller, file |-> file, line |-> line]

\* CallGraph::default()
CallGraphDefault == [callers |-> EmptyMap, callees |-> EmptyMap]

\* The first loop over a line: every captured callee that is neither a
\* keyword nor a prelude method adds a call site and a callee name.
RECURSIVE record_calls(_, _, _, _)
record_calls(cg, names, site, k) ==
    IF k > Len(names) THEN cg
    ELSE record_calls(
            IF ~is_keyword(names[k]) /\ ~is_prelude_method(names[k])
            THEN [callers |-> Push(cg.callers, names[k], site),
                  callees |-> Push(cg.callees, site.caller, names[k])]
            ELSE cg,
            names, site, k + 1)

\* The second loop over a line without its filters.
RECURSIVE record_methods_unfiltered(_, _, _, _)
record_methods_unfiltered(cg, names, site, k) ==
    IF k > Len(names) THEN cg
    ELSE record_methods_unfiltered(
            [cg EXCEPT !.callers = Push(@, names[k], site)],
            names, site, k + 1)

\* The second loop over a line: every captured method name that passes the
\* filters adds a call site.
RECURSIVE record_methods(_, _, _, _)
record_methods(cg, names, site, k) ==
    IF k > Len(names) THEN cg
    ELSE record_methods(
            IF ~is_keyword(names[k]) /\ ~is_prelude_method(names[k])
            THEN [cg EXCEPT !.callers = Push(@, names[k], site)]
            ELSE cg,
            names, site, k + 1)

\* The loop over the lines of one file with a context that ends at a
\* closing brace.
RECURSIVE scan_calls_reset_at_brace(_, _, _, _, _)
scan_calls_reset_at_brace(cg, file_path, lines, n, current_fn) ==
    IF n > Len(lines) THEN cg
    ELSE LET name == extract_fn_name(lines[n])
             caller == IF name # None THEN name ELSE current_fn
         IN  scan_calls_reset_at_brace(
                IF caller = None THEN cg
                ELSE record_methods(
                        record_calls(cg, captures_iter(call_names, lines[n]),
                                     CallSite(caller[1], file_path, n), 1),
                        captures_iter(method_names, lines[n]),
                        CallSite(caller[1], file_path, n), 1),
                file_path, lines, n + 1,
                IF \E i \in 1..Len(lines[n]) : lines[n][i] = "}"
                THEN None ELSE caller)

\* The loop over the lines n.. of one file, with current_fn as it stands.
RECURSIVE scan_calls(_, _, _, _, _)
scan_calls(cg, file_path, lines, n, current_fn) ==
    IF n > Len(lines) THEN cg
    ELSE LET name == extract_fn_name(lines[n])
             caller == IF name # None THEN name ELSE current_fn
         IN  scan_calls(
                IF caller = None THEN cg
                ELSE record_methods(
                        record_calls(cg, captures_iter(call_names, lines[n]),
                                     CallSite(caller[1], file_path, n), 1),
                        captures_iter(method_names, lines[n]),
                        CallSite(caller[1], file_path, n), 1),
                file_path, lines, n + 1, caller)

\* The loop over the files with a context that is carried from a function
\* of one file into the next file.
RECURSIVE scan_files_calls_keeps_context(_, _, _, _)
scan_files_calls_keeps_context(cg, disk, files, k) ==
    IF k > Len(files) THEN cg
    ELSE scan_files_calls_keeps_context(
            scan_calls(cg, files[k].path,
                       Lines(read_to_string_or_default(disk, files[k].path)),
                       1,
                       IF k > 1
                       THEN extract_fn_name(
                              read_to_string_or_default(disk, files[k - 1].path))
                       ELSE None),
            disk, files, k + 1)

RECURSIVE scan_files_calls(_, _, _, _)
scan_files_calls(cg, disk, files, k) ==
    IF k > Len(files) THEN cg
    ELSE scan_files_calls(
            scan_calls(cg, files[k].path,
                       Lines(read_to_string_or_default(disk, files[k].path)),
                       1, None),
            disk, files, k + 1)

\* build_call_graph: a new graph, filled from the text of every parsed file.
build_call_graph(g, disk) ==
    [g EXCEPT !.call_graph = scan_files_calls(CallGraphDefault, disk, g.files, 1)]

\* The characters of the names, attributes, doc texts, queries and path
\* segments of the model.  U+E9 is the two-byte lowercase letter e with an
\* acute accent.
chars(s) ==
    CASE s = "" -> <<>>
      [] s = "a" -> <<"a">>
      [] s = "A" -> <<"A">>
      [] s = "b" -> <<"b">>
      [] s = "t" -> <<"t">>
      [] s = "T" -> <<"T">>
      [] s = "Tr" -> <<"T", "r">>
      [] s = "test_a" -> <<"t", "e", "s", "t", "_", "a">>
      [] s = "test_" -> <<"t", "e", "s", "t", "_">>
      [] s = "test" -> <<"t", "e", "s", "t">>
      [] s = "tests" -> <<"t", "e", "s", "t", "s">>
      [] s = "/tests/" -> <<"/", "t", "e", "s", "t", "s", "/">>
      [] s = "impl T" -> <<"i", "m", "p", "l", " ", "T">>
      [] s = "#[test]" -> <<"#", "[", "t", "e", "s", "t", "]">>
      [] s = "#[inline]" -> <<"#", "[", "i", "n", "l", "i", "n", "e", "]">>
      [] s = "proj" -> <<"p", "r", "o", "j">>
      [] s = "src" -> <<"s", "r", "c">>
      [] s = "a.rs" -> <<"a", ".", "r", "s">>
      [] s = "b.rs" -> <<"b", ".", "r", "s">>
      [] s = "main.rs" -> <<"m", "a", "i", "n", ".", "r", "s">>
      [] s = "x" -> <<"x">>
      [] s = "fs" -> <<"f", "s">>
      [] s = "io" -> <<"i", "o">>
      [] s = "std" -> <<"s", "t", "d">>
      [] s = "foo" -> <<"f", "o", "o">>
      [] s = "crate" -> <<"c", "r", "a", "t", "e">>
      [] s = "self" -> <<"s", "e", "l", "f">>
      [] s = "super" -> <<"s", "u", "p", "e", "r">>
      [] s = "crate::" -> <<"c", "r", "a", "t", "e", ":", ":">>
      [] s = "self::" -> <<"s", "e", "l", "f", ":", ":">>
      [] s = "U+E9a" -> <<"U+E9", "a">>
      [] OTHER -> <<s>>

\* char::to_lowercase on the letters of the model.
to_lowercase_char(c) ==
    CASE c = "A" -> "a"
      [] c = "T" -> "t"
      [] OTHER -> c

\* str::to_lowercase
to_lowercase(text) == [ k \in DOMAIN text |-> to_lowercase_char(text[k]) ]

\* str::contains(pattern)
contains(text, pattern) ==
    \E k \in 0..(Len(text) - Len(pattern)) :
        SubSeq(text, k + 1, k + Len(pattern)) = pattern

\* str::starts_with(pattern)
starts_with(text, pattern) ==
    Len(pattern) <= Len(text) /\ SubSeq(text, 1, Len(pattern)) = pattern

\* The qualified paths of the model, as the segments between their `::`.
segments(path) ==
    CASE path = "std::fs" -> <<"std", "fs">>
      [] path = "std::io" -> <<"std", "io">>
      [] path = "foo::x" -> <<"foo", "x">>
      [] path = "io::x" -> <<"io", "x">>
      [] path = "T::x" -> <<"T", "x">>
      [] path = "super::a" -> <<"super", "a">>
      [] path = "crate::a" -> <<"crate", "a">>
      [] path = "self::a" -> <<"self", "a">>
      [] path = "U+E9a::x" -> <<"U+E9a", "x">>
      [] OTHER -> <<>>

\* The paths qualified_pattern `(\w+(?:::\w+)+)` captures in a character.
qualified_paths(c) == IF segments(c) # <<>> THEN <<c>> ELSE <<>>

\* The characters of a path: its segments joined by "::".
RECURSIVE path_chars(_)
path_chars(segs) ==
    IF segs = <<>> THEN <<>>
    ELSE IF Len(segs) = 1 THEN chars(segs[1])
    ELSE chars(segs[1]) \o <<":", ":">> \o path_chars(Tail(segs))

\* path.starts_with("crate::") || path.starts_with("self::")
is_local_path(path) ==
    \/ starts_with(path_chars(segments(path)), chars("crate::"))
    \/ starts_with(path_chars(segments(path)), chars("self::"))

\* path.split("::").next().unwrap_or("")
first_segment(path) == IF segments(path) = <<>> THEN "" ELSE segments(path)[1]

\* char::is_lowercase on the letters of the model.
is_lowercase(c) ==
    c \in {"a", "b", "c", "d", "e", "f", "i", "l", "m", "n", "o", "p", "r",
           "s", "t", "u", "x", "U+E9"}

external_indicators ==
    { "std", "core", "alloc", "tokio", "async_std", "serde", "regex", "syn",
      "quote", "proc_macro", "proc_macro2", "thiserror", "anyhow", "log",
      "tracing", "futures", "hyper", "reqwest", "actix", "axum", "rocket",
      "diesel", "sqlx", "chrono", "rand", "clap", "structopt", "env_logger",
      "parking_lot", "crossbeam", "rayon", "itertools", "bytes", "http", "url",
      "walkdir", "cargo_metadata", "indexmap", "hashbrown" }

\* is_likely_external_crate: a name of the list, or a name that starts
\* with a lowercase letter, is no keyword and is longer than two bytes
\* (str::len counts bytes).
is_likely_external_crate(name) ==
    \/ name \in external_indicators
    \/ /\ chars(name) # <<>> /\ is_lowercase(chars(name)[1])
       /\ ~is_keyword(name)
       /\ ByteLen(chars(name)) > 2

\* line.matches(c).count()
RECURSIVE count_matches(_, _)
count_matches(line, c) ==
    IF line = <<>> THEN 0
    ELSE (IF Head(line) = c THEN 1 ELSE 0) + count_matches(Tail(line), c)

\* estimate_line_complexity: the count of `<`, where, impl, dyn, async,
\* await and unsafe in the line; the characters of the model hold none but `<`.
estimate_line_complexity(line) == count_matches(line, "<")

\* a.saturating_sub(b)
saturating_sub(a, b) == IF a > b THEN a - b ELSE 0

ExternalReference(path, file, line, caller_context, complexity) ==
    [external_path |-> path, file |-> file, line |-> line,
     caller_context |-> caller_context, complexity |-> complexity]

\* The qualified paths k.. of one line: a path that is not local and whose
\* first segment looks external is pushed under the full path.
RECURSIVE record_references(_, _, _, _)
record_references(refs, paths, proto, k) ==
    IF k > Len(paths) THEN refs
    ELSE record_references(
            IF ~is_local_path(paths[k])
               /\ is_likely_external_crate(first_segment(paths[k]))
            THEN Push(refs, paths[k], [proto EXCEPT !.external_path = paths[k]])
            ELSE refs,
            paths, proto, k + 1)

\* The loop over the lines n.. of one file, with current_fn and brace_depth
\* as they stand.
RECURSIVE scan_references(_, _, _, _, _, _)
scan_references(refs, file_path, lines, n, current_fn, brace_depth) ==
    IF n > Len(lines) THEN refs
    ELSE LET name == extract_fn_name(lines[n])
             context == IF name # None THEN name[1] ELSE current_fn
             depth == saturating_sub(
                         (IF name # None THEN 0 ELSE brace_depth)
                             + count_matches(lines[n], "{"),
                         count_matches(lines[n], "}"))
         IN  scan_references(
                record_references(
                    refs, captures_iter(qualified_paths, lines[n]),
                    ExternalReference("", file_path, n, context,
                        depth + estimate_line_complexity(lines[n])),
                    1),
                file_path, lines, n + 1, context, depth)

RECURSIVE scan_files_references(_, _, _, _)
scan_files_references(refs, disk, files, k) ==
    IF k > Len(files) THEN refs
    ELSE scan_files_references(
            scan_references(refs, files[k].path,
                            Lines(read_to_string_or_default(disk, files[k].path)),
                            1, "<module>", 0),
            disk, files, k + 1)

\* build_reference_map: a new map, filled from the text of every parsed file.
build_reference_map(g, disk) ==
    [g EXCEPT !.reference_map =
        [references |-> scan_files_references(EmptyMap, disk, g.files, 1)]]

\* self.files.iter().find(|f| f.path == p): the items of the first parsed
\* file with that path, none when there is no such file.
items_of_file(files, p) ==
    LET hits == {k \in 1..Len(files) : files[k].path = p} IN
    IF hits = {} THEN <<>>
    ELSE files[CHOOSE k \in hits : \A j \in hits : k <= j].items

\* What the traversal pushes for the items k.. of the file just visited:
\* the file of every module declared in it that is not visited yet.
RECURSIVE push_modules(_, _, _, _, _, _, _)
push_modules(queue, disk, visited, p, dist, items, k) ==
    IF k > Len(items) THEN queue
    ELSE LET mod_path == resolve_mod_path(disk, p, items[k].name) IN
         push_modules(
            IF items[k].kind.tag = "Mod" /\ mod_path \notin visited
            THEN Append(queue, [path |-> mod_path, dist |-> dist + 1])
            ELSE queue,
            disk, visited, p, dist, items, k + 1)

\* The traversal with a first-in-first-out frontier.
RECURSIVE traverse_first_in_first_out(_, _, _, _, _)
traverse_first_in_first_out(cache, queue, visited, disk, files) ==
    IF queue = <<>> THEN cache
    ELSE LET top == Head(queue)
             rest == Tail(queue)
         IN  IF top.path \in visited
             THEN traverse_first_in_first_out(cache, rest, visited, disk, files)
             ELSE traverse_first_in_first_out(
                     Insert(cache, top.path, top.dist),
                     push_modules(rest, disk, visited \cup {top.path},
                                  top.path, top.dist,
                                  items_of_file(files, top.path), 1),
                     visited \cup {top.path}, disk, files)

\* `while let Some((path, dist)) = queue.pop()`: the last entry is popped;
\* a visited path is skipped, another is recorded and its modules pushed.
RECURSIVE traverse(_, _, _, _, _)
traverse(cache, queue, visited, disk, files) ==
    IF queue = <<>> THEN cache
    ELSE LET top == queue[Len(queue)]
             rest == SubSeq(queue, 1, Len(queue) - 1)
         IN  IF top.path \in visited
             THEN traverse(cache, rest, visited, disk, files)
             ELSE traverse(Insert(cache, top.path, top.dist),
                           push_modules(rest, disk, visited \cup {top.path},
                                        top.path, top.dist,
                                        items_of_file(files, top.path), 1),
                           visited \cup {top.path}, disk, files)

\* The number of times the loop of the traversal pops an entry before the
\* frontier is empty.
RECURSIVE loop_pops(_, _, _, _)
loop_pops(queue, visited, disk, files) ==
    IF queue = <<>> THEN 0
    ELSE LET top == queue[Len(queue)]
             rest == SubSeq(queue, 1, Len(queue) - 1)
         IN  IF top.path \in visited
             THEN 1 + loop_pops(rest, visited, disk, files)
             ELSE 1 + loop_pops(push_modules(rest, disk, visited \cup {top.path},
                                             top.path, top.dist,
                                             items_of_file(files, top.path), 1),
                                visited \cup {top.path}, disk, files)

\* self.distance_cache.values().max().copied().unwrap_or(0)
max_value(cache) ==
    IF DOMAIN cache = {} THEN 0
    ELSE CHOOSE m \in {cache[p] : p \in DOMAIN cache} :
            \A p \in DOMAIN cache : cache[p] <= m

\* No fallback: the cache is left as the traversal filled it.
insert_fallback_never(cache, files, max_dist, k) == cache

\* entry(file.path).or_insert(max_dist) for the files k..
RECURSIVE insert_fallback(_, _, _, _)
insert_fallback(cache, files, max_dist, k) ==
    IF k > Len(files) THEN cache
    ELSE insert_fallback(
            IF files[k].path \in DOMAIN cache THEN cache
            ELSE Insert(cache, files[k].path, max_dist),
            files, max_dist, k + 1)

\* The fallback distance without the increment: the largest recorded distance.
with_fallback_of_max(cache, files) ==
    insert_fallback(cache, files, max_value(cache), 1)

\* The cache after the traversal, then with the fallback distance.
with_fallback(cache, files) ==
    insert_fallback(cache, files, max_value(cache) + 1, 1)

\* The traversal of compute_distances without the clear: it starts from
\* the cache of the instance.
compute_distances_keeps_cache(g, disk, root) ==
    [g EXCEPT !.distance_cache =
        with_fallback(
            traverse(g.distance_cache,
                     <<[path |-> entry_file(disk, root), dist |-> 0]>>,
                     {}, disk, g.files),
            g.files)]

\* compute_distances: the cache is cleared, the traversal starts at the
\* entry file with distance 0, and every parsed file it did not visit gets
\* one more than the largest recorded distance.
compute_distances(g, disk, root) ==
    [g EXCEPT !.distance_cache =
        with_fallback(
            traverse(EmptyMap,
                     <<[path |-> entry_file(disk, root), dist |-> 0]>>,
                     {}, disk, g.files),
            g.files)]

\* analyze_project after parse_project has returned parsed: the instance
\* after the call, and what the call returns.  An Err of parse_project is
\* returned as GravityError::Parse; a panic leaves the instance as it was.
analyze_parsed(g, parsed, disk, root) ==
    IF parsed.tag # "Ok" THEN [tag |-> parsed.tag, gravity |-> g]
    ELSE [tag |-> "Ok",
          gravity |->
            compute_distances(
                build_reference_map(
                    build_call_graph(
                        build_impl_map(
                            build_module_tree(
                                build_file_module_map(
                                    [g EXCEPT !.files = parsed.files]),
                                disk, root)),
                        disk),
                    disk),
                disk, root)]

analyze_project(g, root, exists, tree) ==
    analyze_parsed(g, parse_project(root, exists, tree),
                   DiskOf(root, exists, tree), root)

-----------------------------------------------------------------------------
(* SemanticGravity: the queries on an analysed project *)

\* count_cross_module_callers: the number of distinct modules among the
\* files of the call sites of item_name (a site whose file has no module
\* is dropped by filter_map).
count_cross_module_callers(g, item_name) ==
    IF item_name \notin DOMAIN g.call_graph.callers THEN 0
    ELSE LET call_sites == g.call_graph.callers[item_name] IN
         Cardinality({ g.file_to_module[call_sites[k].file] :
                         k \in { j \in 1..Len(call_sites) :
                                   call_sites[j].file \in DOMAIN g.file_to_module } })

\* slice::sort_by, a stable sort: Before(a, b) is "the comparison of a
\* with b is Less".  An element moves behind every element that is before
\* it and behind every earlier element that it is not before.
sort_by(s, Before(_, _)) ==
    LET pos(i) == 1 + Cardinality({ j \in 1..Len(s) :
                                      \/ Before(s[j], s[i])
                                      \/ (j < i /\ ~Before(s[i], s[j])) })
    IN  [ k \in 1..Len(s) |-> s[CHOOSE i \in 1..Len(s) : pos(i) = k] ]

\* Vec::truncate
truncate(s, n) == IF Len(s) > n THEN SubSeq(s, 1, n) ELSE s

\* The orders in which iter() may yield the keys of a HashMap: the order
\* depends on the hasher's random state, so it is any order of the keys.
IterationOrders(map) ==
    { o \in [1..Cardinality(DOMAIN map) -> DOMAIN map] :
        \A i, j \in DOMAIN o : i # j => o[i] # o[j] }

\* get_significant_hubs, with the callers map iterated in the given order:
\* (name, call sites, cross-module count) of every key that is no prelude
\* method and has a cross-module count above 0, sorted by cross-module
\* count, then call sites, both descending, and truncated to n.
get_significant_hubs(g, n, order) ==
    LET named == SelectSeq(order, LAMBDA name : ~is_prelude_method(name))
        mapped == [ k \in 1..Len(named) |->
                      << named[k], Len(g.call_graph.callers[named[k]]),
                         count_cross_module_callers(g, named[k]) >> ]
        hubs == SelectSeq(mapped, LAMBDA h : h[3] > 0)
    IN  truncate(sort_by(hubs, LAMBDA a, b :
                                  b[3] < a[3] \/ (b[3] = a[3] /\ b[2] < a[2])),
                 n)

\* get_all_external_symbols, with the references map iterated in the given
\* order: (path, number of references), sorted by the number descending.
get_all_external_symbols(g, order) ==
    sort_by([ k \in 1..Len(order) |->
                << order[k], Len(g.reference_map.references[order[k]]) >> ],
            LAMBDA a, b : b[2] < a[2])

\* Path::to_string_lossy: the segments joined by "/".
RECURSIVE to_string_lossy(_)
to_string_lossy(path) ==
    IF path = <<>> THEN <<>>
    ELSE IF Len(path) = 1 THEN chars(path[1])
    ELSE chars(path[1]) \o <<"/">> \o to_string_lossy(Tail(path))

\* collect::<Vec<_>>().join(" ") of the type texts of parameters or fields.
RECURSIVE join_types(_)
join_types(list) ==
    IF list = <<>> THEN <<>>
    ELSE IF Len(list) = 1 THEN list[1].ty
    ELSE list[1].ty \o <<" ">> \o join_types(Tail(list))

\* The loop of estimate_generic_depth over the characters k.. of the text.
RECURSIVE generic_scan(_, _, _, _)
generic_scan(text, k, max_depth, current_depth) ==
    IF k > Len(text) THEN max_depth
    ELSE IF text[k] = "<"
         THEN generic_scan(text, k + 1,
                           IF current_depth + 1 > max_depth
                           THEN current_depth + 1 ELSE max_depth,
                           current_depth + 1)
    ELSE IF text[k] = ">"
         THEN generic_scan(text, k + 1, max_depth,
                           saturating_sub(current_depth, 1))
    ELSE generic_scan(text, k + 1, max_depth, current_depth)

\* estimate_generic_depth: the deepest nesting of `<` in the types of the
\* parameters followed by the return type (a function), of the fields (a
\* struct) or in the self type (an impl); 0 for every other kind.
estimate_generic_depth(item) ==
    generic_scan(
        CASE item.kind.tag = "Function" ->
                join_types(item.kind.parameters)
                    \o (IF item.kind.return_type # None
                        THEN item.kind.return_type[1] ELSE <<>>)
          [] item.kind.tag = "Struct" -> join_types(item.kind.fields)
          [] item.kind.tag = "Impl" -> item.kind.self_type
          [] OTHER -> <<>>,
        1, 0, 0)

\* is_test_item, with the attribute test alone.
is_test_item_by_attribute(item) ==
    \E k \in 1..Len(item.attributes) :
        contains(chars(item.attributes[k]), chars("test"))

\* is_test_item: an attribute contains "test", or the path contains
\* "/tests/", or the name starts with "test_".
is_test_item(item) ==
    \/ \E k \in 1..Len(item.attributes) :
          contains(chars(item.attributes[k]), chars("test"))
    \/ contains(to_string_lossy(item.file_path), chars("/tests/"))
    \/ starts_with(chars(item.name), chars("test_"))

\* get_impl_info: the number of impl items under the type name and the
\* trait names of those that implement a trait.
get_impl_info(g, type_name) ==
    IF chars(type_name) \in DOMAIN g.impl_map
    THEN LET impl_items == g.impl_map[chars(type_name)]
             with_trait == SelectSeq(impl_items,
                              LAMBDA i : i.kind.tag = "Impl"
                                         /\ i.kind.trait_name # None)
         IN  [ impl_count |-> Len(impl_items),
               trait_impls |-> [ k \in 1..Len(with_trait) |->
                                   with_trait[k].kind.trait_name[1] ] ]
    ELSE [ impl_count |-> 0, trait_impls |-> <<>> ]

\* usize::MAX, the entry distance of an item whose file has no entry in the
\* distance cache.  The score is computed in f64, where -5 * usize::MAX
\* outweighs every other term; the model keeps that with a value that is
\* far above every other quantity and whose multiple is still an integer
\* of the checker.
usize_MAX == 2^28 - 1

\* is_site, with the bound of the utility penalty.
is_site_up_to_ten(call_count) == call_count > 0 /\ call_count <= 10

\* is_site: called in one to three places.
is_site(call_count) == call_count > 0 /\ call_count <= 3

\* f64::max that returns its receiver.
f64_max_of_self(a, b) == a

\* f64::max
f64_max(a, b) == IF a < b THEN b ELSE a

\* The sum of score_item, in the order of the source.
weighted_sum(item, f) ==
    100
    + f.cross_module_count * CROSS_MODULE_USAGE
    + (IF item.visibility = "Public" THEN PUB_VISIBILITY ELSE 0)
    + f.generic_depth * GENERIC_DEPTH
    + (IF f.is_test THEN IS_TEST_PENALTY ELSE 0)
    + f.entry_distance * ENTRY_DISTANCE_PENALTY
    + (IF f.is_site THEN SITE_BONUS
       ELSE IF f.call_count > 10 THEN UTILITY_PENALTY ELSE 0)
    + f.impl_count * IMPL_RICHNESS
    + Len(f.trait_impls) * TRAIT_IMPL

\* The WorkSiteScore of an item and its factors.
WorkSiteScore(item, f) ==
    [ item |-> item, score |-> f64_max(weighted_sum(item, f), 0), factors |-> f ]

\* score_item: the factors of the item, read from the distance cache, the
\* call graph, the module map and the impl map, and the score they give.
score_item(g, item) ==
    LET call_count == IF item.name \in DOMAIN g.call_graph.callers
                      THEN Len(g.call_graph.callers[item.name]) ELSE 0
        impl_info == get_impl_info(g, item.name)
    IN  WorkSiteScore(item,
            [ entry_distance |-> IF item.file_path \in DOMAIN g.distance_cache
                                 THEN g.distance_cache[item.file_path]
                                 ELSE usize_MAX,
              call_count |-> call_count,
              is_site |-> is_site(call_count),
              impl_count |-> impl_info.impl_count,
              trait_impls |-> impl_info.trait_impls,
              cross_module_count |-> count_cross_module_callers(g, item.name),
              generic_depth |-> estimate_generic_depth(item),
              is_test |-> is_test_item(item) ])

\* The order of the two result sorts: b.score.partial_cmp(&a.score) is Less.
higher_score(a, b) == b.score < a.score

\* The filter of search, on the name alone.
matches_query_by_name(item, query_lower) ==
    contains(to_lowercase(chars(item.name)), query_lower)

\* The filter of search: the lowercased name, or the lowercased doc text
\* if there is one, contains the lowercased query.
matches_query(item, query_lower) ==
    \/ contains(to_lowercase(chars(item.name)), query_lower)
    \/ (item.doc_comment # None
        /\ contains(to_lowercase(chars(item.doc_comment[1])), query_lower))

\* .map(|item| self.score_item(item)).collect()
score_all(g, items) == [ k \in 1..Len(items) |-> score_item(g, items[k]) ]

\* search: every item that matches, scored, highest score first.
search(g, query) ==
    sort_by(score_all(g, SelectSeq(all_items(g.files, 1),
                LAMBDA item : matches_query(item, to_lowercase(chars(query))))),
            higher_score)

\* get_hotspots: the functions, structs, enums and traits that are no test
\* items, scored, highest score first, at most n of them.
get_hotspots(g, n) ==
    truncate(
        sort_by(score_all(g, SelectSeq(all_items(g.files, 1),
                    LAMBDA item :
                        /\ item.kind.tag \in {"Function", "Struct", "Enum", "Trait"}
                        /\ ~is_test_item(item))),
                higher_score),
        n)

\* summarize: total_modules, one for every module item of every file.
total_modules(g) ==
    Cardinality({ k \in 1..Len(all_items(g.files, 1)) :
                    all_items(g.files, 1)[k].kind.tag = "Mod" })

-----------------------------------------------------------------------------
(* The inputs of the parser: files and their texts *)

\* The pieces texts are made of: every character of the model by itself,
\* and the two complete functions `fn a() {}` and `fn b() {}`.
Fragments ==
    { <<"{">>, <<"}">>, <<";">>, <<"\n">>, <<"U+4E2D">>, <<"\"">>,
      <<"fn a">>, <<"fn b">>,
      <<"fn a", "{", "}">>, <<"fn b", "{", "}">> }

RECURSIVE TextsOf(_)
TextsOf(n) ==
    IF n = 0 THEN {<<>>}
    ELSE LET shorter == TextsOf(n - 1) IN
         shorter \cup {t \o f : t \in shorter, f \in Fragments}

Texts == TextsOf(MaxFrags)

Paths == { <<"src", "a.rs">>, <<"proj", "src", "lib.rs">> }

NoResult ==
    [ tag |-> "None", file |-> NoFile, chunks |-> <<>>, files |-> <<>>,
      names |-> <<>>, root |-> <<>>, before |-> <<>>, n |-> 0,
      hubs |-> <<>>, symbols |-> <<>>, query |-> "", scores |-> <<>> ]

\* SemanticGravity::new()
NewGravity ==
    [ files |-> <<>>, file_to_module |-> EmptyMap,
      module_tree |-> ModuleTreeDefault, impl_map |-> EmptyMap,
      call_graph |-> CallGraphDefault,
      reference_map |-> [references |-> EmptyMap],
      distance_cache |-> EmptyMap ]

-----------------------------------------------------------------------------
(* The parser as a state machine: one call on one file *)

Init ==
    /\ fsPath \in Paths
    /\ fsReadable \in BOOLEAN
    /\ fsContent \in (IF fsReadable THEN Texts ELSE {<<>>})
    /\ fsRoot = <<".">>
    /\ fsRootExists = TRUE
    /\ fsTree = <<>>
    /\ gravity = NewGravity
    /\ tyText = <<>>
    /\ pc = "start"
    /\ result = NoResult

\* PartialParser::parse_file(fsPath)
ParseFile ==
    /\ pc = "start"
    /\ pc' = "parse_file"
    /\ \E r \in {parse_file(fsPath, fsReadable, fsContent)} :
          result' = [NoResult EXCEPT !.tag = r.tag, !.file = r.file]
    /\ UNCHANGED <<fsPath, fsReadable, fsContent, fsRoot, fsRootExists, fsTree,
                   gravity, tyText>>

\* PartialParser::split_into_items(fsContent), the chunk scan by itself
SplitIntoItems ==
    /\ pc = "start"
    /\ fsReadable
    /\ pc' = "split_into_items"
    /\ \E r \in {split_into_items(fsContent)} :
          result' = [NoResult EXCEPT !.tag = r.tag, !.chunks = r.chunks]
    /\ UNCHANGED <<fsPath, fsReadable, fsContent, fsRoot, fsRootExists, fsTree,
                   gravity, tyText>>

Next == ParseFile \/ SplitIntoItems

Spec == Init /\ [][Next]_vars

-----------------------------------------------------------------------------
(* The project scan and the analysis as a state machine: one file system,  *)
(* one SemanticGravity instance, analysed once or again                     *)

Roots == { <<".">>, <<"proj">> }

\* The files a tree may hold, in walk order, as paths below the root.
TreePaths ==
    << <<"src", "a.rs">>, <<"src", "lib.rs">>, <<"src", "b.rs">>,
       <<"src", "notes.txt">>, <<"target", "b.rs">> >>

\* The texts a file of the tree may hold: a valid item, an item with an
\* unclosed brace, a text with a non-ASCII character before two cut points,
\* module declarations, calls, and a valid item followed by a broken one.
TreeTexts ==
    << \* src/a.rs
       { <<"fn a", "{", "}">>, <<"fn a", "{">>, <<"U+4E2D", ";", ";">>,
         <<"fn a", "{", "a()", ";", "}">>,
         <<"fn a", "{", "}", "\n", "fn b", "{", "a()", ";", "}">>,
         <<"mod b", ";", "\n", "fn a", "{", "a()", ";", "}">>,
         <<"fn a", "{", "std::fs", ";", "}">>,
         <<"fn a", "{", "}", "\n", "fn b">> },
       \* src/lib.rs
       { <<"fn a", "{", "}">>, <<"U+4E2D", ";", ";">>,
         <<"mod a", ";", "\n", "mod b", ";">>, <<"mod a", ";">>,
         <<"mod a", "{", "}">>,
         <<"std::fs", ";", "foo::x", ";", "io::x", ";", "T::x", ";",
           "super::a", ";", "crate::a", ";", "self::a", ";", "U+E9a::x", ";",
           "\n", "fn a", "{", "foo::x", ";", "}">> },
       \* src/b.rs
       { <<"fn b", "{", "}">>, <<"fn b", "{", "a()", ";", "}">>,
         <<"mod a", ";">>,
         <<"fn b", "{", "x.m()", ";", "\n", "b()", ";", "}">>,
         <<"fn b", "{", "x.clone()", ";", "\n", "Some(x)", ";", "\n",
           "a()", ";", "}">>,
         <<"a()", ";", "\n", "fn b", "{", "}", "\n", "a()", ";">> },
       \* src/notes.txt
       { <<"fn a", "{", "}">> },
       \* target/b.rs
       { <<"fn a", "{", "}">> } >>

\* The paths of the tree at which a file that cannot be read may lie.
UnreadableAt == {1, 2}

\* What a tree may hold at its k-th path: nothing, a file that cannot be
\* read, or a readable file with one of the texts.
FileStates(k) ==
    {<<>>}
    \cup { <<[path |-> TreePaths[k], readable |-> FALSE, content |-> <<>>]>> :
             u \in UnreadableAt \cap {k} }
    \cup { <<[path |-> TreePaths[k], readable |-> TRUE, content |-> t]>> :
             t \in TreeTexts[k] }

RECURSIVE TreeOf(_)
TreeOf(k) ==
    IF k > Len(TreePaths) THEN {<<>>}
    ELSE LET rest == TreeOf(k + 1) IN {f \o t : f \in FileStates(k), t \in rest}

Trees == TreeOf(1)

\* A second project, which is always there: a binary crate of two files.
OtherRoot == <<"other">>

OtherTree ==
    << [path |-> <<"src", "b.rs">>, readable |-> TRUE,
        content |-> <<"fn b", "{", "std::fs", ";", "}">>],
       [path |-> <<"src", "main.rs">>, readable |-> TRUE,
        content |-> <<"mod b", ";", "\n", "fn a", "{", "b()", ";", "\n",
                     "std::io", ";", "}">>] >>

\* The file system below a root.
ExistsAt(root) == root = OtherRoot \/ (root = fsRoot /\ fsRootExists)
TreeAt(root) ==
    IF root = OtherRoot THEN OtherTree
    ELSE IF root = fsRoot /\ fsRootExists THEN fsTree
    ELSE <<>>

InitProject ==
    /\ fsPath = <<>>
    /\ fsReadable = FALSE
    /\ fsContent = <<>>
    /\ fsRoot \in Roots
    /\ fsRootExists \in BOOLEAN
    /\ fsTree \in (IF fsRootExists THEN Trees ELSE {<<>>})
    /\ gravity = NewGravity
    /\ tyText = <<>>
    /\ pc = "start"
    /\ result = NoResult

\* PartialParser::parse_project(fsRoot)
ParseProject ==
    /\ pc = "start"
    /\ pc' = "parse_project"
    /\ \E r \in {parse_project(fsRoot, fsRootExists, fsTree)} :
          result' = [NoResult EXCEPT !.tag = r.tag, !.files = r.files]
    /\ UNCHANGED <<fsPath, fsReadable, fsContent, fsRoot, fsRootExists, fsTree,
                   gravity, tyText>>

\* SemanticGravity::analyze_project(root), on the new instance or on the
\* instance a call has already returned on.  result.before is the instance
\* before the call.
AnalyzeProject ==
    /\ pc \in {"start", "analyze_project"}
    /\ result.tag # "Panic"
    /\ pc' = "analyze_project"
    /\ \E root \in {fsRoot, OtherRoot} :
        \E r \in {analyze_project(gravity, root, ExistsAt(root), TreeAt(root))} :
          /\ gravity' = r.gravity
          /\ result' = [NoResult EXCEPT !.tag = r.tag, !.root = root,
                                        !.before = gravity]
    /\ UNCHANGED <<fsPath, fsReadable, fsContent, fsRoot, fsRootExists, fsTree,
                   tyText>>

\* SemanticGravity::get_significant_hubs(n) on the analysed instance.
GetSignificantHubs ==
    /\ pc = "analyze_project"
    /\ result.tag = "Ok"
    /\ pc' = "get_significant_hubs"
    /\ \E n \in 0..MaxTop :
        \E order \in IterationOrders(gravity.call_graph.callers) :
          result' = [NoResult EXCEPT !.tag = "Ok", !.root = result.root,
                        !.n = n,
                        !.hubs = get_significant_hubs(gravity, n, order)]
    /\ UNCHANGED <<fsPath, fsReadable, fsContent, fsRoot, fsRootExists, fsTree,
                   gravity, tyText>>

\* SemanticGravity::get_all_external_symbols() on the analysed instance.
GetAllExternalSymbols ==
    /\ pc = "analyze_project"
    /\ result.tag = "Ok"
    /\ pc' = "get_all_external_symbols"
    /\ \E order \in IterationOrders(gravity.reference_map.references) :
          result' = [NoResult EXCEPT !.tag = "Ok", !.root = result.root,
                        !.symbols = get_all_external_symbols(gravity, order)]
    /\ UNCHANGED <<fsPath, fsReadable, fsContent, fsRoot, fsRootExists, fsTree,
                   gravity, tyText>>

NextProject ==
    \/ ParseProject
    \/ AnalyzeProject
    \/ GetSignificantHubs
    \/ GetAllExternalSymbols

SpecProject == InitProject /\ [][NextProject]_vars

-----------------------------------------------------------------------------
(* Type-name normalisation as a state machine: one type text, normalised    *)
(* and normalised again                                                      *)

\* A reference marker, as written by hand ("&", "&mut ") and as quote
\* renders it, with a blank after every token ("& ", "& mut ").
RefMarkers ==
    { <<"&">>, <<"&", "mut", " ">>, <<"&", " ">>, <<"&", " ", "mut", " ">> }

\* A type name, by itself and with a generic argument (both renderings).
TypeCores ==
    { <<"T">>, <<"T", "<", "T", ">">>, <<"T", " ", "<", " ", "T", " ", ">">> }

RECURSIVE RefPrefixes(_)
RefPrefixes(n) ==
    IF n = 0 THEN {<<>>}
    ELSE LET shorter == RefPrefixes(n - 1) IN
         shorter \cup {m \o r : m \in RefMarkers, r \in shorter}

\* The type texts handed to normalize_type_name.
TypeTexts == {r \o c : r \in RefPrefixes(MaxRefs), c \in TypeCores}

InitNormalize ==
    /\ fsPath = <<>>
    /\ fsReadable = FALSE
    /\ fsContent = <<>>
    /\ fsRoot = <<".">>
    /\ fsRootExists = TRUE
    /\ fsTree = <<>>
    /\ gravity = NewGravity
    /\ tyText \in TypeTexts
    /\ pc = "start"
    /\ result = NoResult

\* normalize_type_name(tyText), and normalize_type_name of what it returned
Normalize ==
    /\ pc = "start"
    /\ pc' = "normalize_type_name"
    /\ result' = [NoResult EXCEPT
                    !.tag = "Ok",
                    !.names = << normalize_type_name(tyText),
                                 normalize_type_name(normalize_type_name(tyText)) >>]
    /\ UNCHANGED <<fsPath, fsReadable, fsContent, fsRoot, fsRootExists, fsTree,
                   gravity, tyText>>

NextNormalize == Normalize

SpecNormalize == InitNormalize /\ [][NextNormalize]_vars

-----------------------------------------------------------------------------
(* Properties of parse_file and split_into_items *)

Parsed == pc = "parse_file" /\ result.tag = "Ok"

IsUnknown(item) == item.kind.tag = "Unknown"

UnknownItems(items) == SelectSeq(items, IsUnknown)
RecoveredItems(items) == SelectSeq(items, LAMBDA it : ~IsUnknown(it))

\* The number of item headers in a text.
HeaderCount(text) == Cardinality({k \in 1..Len(text) : KeywordOf(text[k]) # ""})

\* A text that is one syntactically valid item, with no item nested in it.
IsValidItem(text) ==
    LET r == syn_parse_file(text, <<>>) IN r.ok /\ Len(r.items) = 1

\* A text that starts as an item, holds one header, and does not parse.
IsBrokenItem(text) ==
    /\ looks_like_item(text)
    /\ HeaderCount(text) = 1
    /\ ~syn_parse_file(text, <<>>).ok

\* C1: parse_file returns an error only when reading the file fails: for
\* every readable file, whatever its text, it returns a ParsedFile.
C1_ErrOnlyWhenUnreadable ==
    pc = "parse_file" =>
        /\ (~fsReadable => result.tag = "Err")
        /\ (fsReadable => result.tag = "Ok" /\ result.file.path = fsPath)

\* C2: no operation panics on malformed input: parse_file and the chunk
\* scan split_into_items run to completion for every input text.
C2_NoPanic ==
    pc \in {"parse_file", "split_into_items"} => result.tag # "Panic"

\* C3: for a text made of one valid item followed by one item with a
\* structural error, partial parsing produces at least two chunks and the
\* ParsedFile holds exactly one recovered item plus exactly one unknown item
\* whose error message is non-empty.
C3_ValidThenBroken ==
    Parsed =>
        \A k \in 1..(Len(fsContent) - 1) :
            (/\ IsValidItem(SubSeq(fsContent, 1, k))
             /\ IsBrokenItem(SubSeq(fsContent, k + 1, Len(fsContent))))
            => /\ Len(split_into_items(fsContent).chunks) >= 2
               /\ Len(RecoveredItems(result.file.items)) = 1
               /\ Len(UnknownItems(result.file.items)) = 1
               /\ UnknownItems(result.file.items)[1].kind.error # ""

\* Whether the braces of a text do not match up.
Count(text, c) == Cardinality({k \in 1..Len(text) : text[k] = c})
BraceBroken(text) == IsBrokenItem(text) /\ Count(text, "{") # Count(text, "}")

\* C4: when whole-file parsing fails because one top-level item has a
\* syntax error (here: an unclosed or an extra closing brace), the other
\* top-level item, valid on its own, still appears in the item list as a
\* recovered, non-unknown item.
C4_OtherItemsRecovered ==
    Parsed =>
        \A k \in 1..(Len(fsContent) - 1) :
            LET front == SubSeq(fsContent, 1, k)
                back == SubSeq(fsContent, k + 1, Len(fsContent))
                Recovered(text) ==
                    \E n \in 1..Len(result.file.items) :
                        /\ ~IsUnknown(result.file.items[n])
                        /\ result.file.items[n].name = guess_item_name(text)
            IN  guess_item_name(front) # guess_item_name(back) =>
                    /\ (IsValidItem(front) /\ BraceBroken(back)) => Recovered(front)
                    /\ (BraceBroken(front) /\ IsValidItem(back)) => Recovered(back)

\* The chunks of the text whose re-parse fails, in order.
FailedChunks(content) ==
    SelectSeq(split_into_items(content).chunks,
              LAMBDA ch : parse_chunk(ch.text, <<>>).tag = "Err")

\* The name of the first header of a text, "<unknown>" when it has none.
RECURSIVE FirstHeaderName(_)
FirstHeaderName(text) ==
    IF text = <<>> THEN "<unknown>"
    ELSE IF Head(text) \in FnHeads \cup ModHeads THEN HeadName(Head(text))
    ELSE FirstHeaderName(Tail(text))

\* C5: in every ParsedFile returned by parse_file the number of unknown
\* items equals the number of parse_errors: a whole-file success yields
\* neither, and each chunk that fails to parse adds exactly one ParseError
\* and one unknown item, both with span [chunk start line, chunk start line
\* + line count of the chunk], the item named by the first identifier after
\* an item keyword or "<unknown>".
C5_UnknownPerError ==
    Parsed =>
        LET unknown == UnknownItems(result.file.items)
            errors == result.file.parse_errors
            failed == IF syn_parse_file(fsContent, fsPath).ok THEN <<>>
                      ELSE FailedChunks(fsContent)
        IN  /\ Len(unknown) = Len(errors)
            /\ Len(errors) = Len(failed)
            /\ \A k \in 1..Len(failed) :
                LET from == failed[k].start_line
                    to == from + LinesCount(failed[k].text)
                IN  /\ errors[k].span = Span(from, to)
                    /\ unknown[k].span = Span(from, to)
                    /\ unknown[k].name = FirstHeaderName(failed[k].text)

\* A file with two failed chunks, one named and one without a name.
C5_Witness ==
    /\ Parsed
    /\ Len(result.file.parse_errors) = 2
    /\ \E k \in 1..Len(result.file.items) :
        IsUnknown(result.file.items[k]) /\ result.file.items[k].name = "<unknown>"
    /\ \E k \in 1..Len(result.file.items) :
        IsUnknown(result.file.items[k]) /\ result.file.items[k].name = "b"

\* The 1-based lines of the text on which the header of an item named n is.
LinesOfName(content, n) ==
    { 1 + CountNewlines(SubSeq(content, 1, k - 1)) :
        k \in {j \in 1..Len(content) : HeadName(content[j]) = n} }

\* C8: every item in a ParsedFile has file_path equal to the file's path and
\* a span in 1-based line numbers of the original file: the span of an item
\* found in the text starts on a line where that item occurs.
C8_SpanInFileLines ==
    Parsed =>
        \A k \in 1..Len(result.file.items) :
            LET item == result.file.items[k] IN
            /\ item.file_path = fsPath
            /\ (~IsUnknown(item) /\ LinesOfName(fsContent, item.name) # {})
                => /\ item.span.start_line \in LinesOfName(fsContent, item.name)
                   /\ item.span.end_line >= item.span.start_line

\* The segments between the source root (the first "src" component) and
\* the file, without root file names and without the .rs suffix.
RECURSIVE AfterSrc(_)
AfterSrc(p) ==
    IF p = <<>> THEN <<>>
    ELSE IF Head(p) = "src" THEN Tail(p)
    ELSE AfterSrc(Tail(p))

ExpectedModulePath(p) ==
    LET below == SelectSeq(AfterSrc(p),
                           LAMBDA c : c \notin {"lib.rs", "main.rs", "mod.rs"})
    IN  [k \in 1..Len(below) |-> strip_suffix_rs(below[k])]

\* C9: module_path is the list of path segments between the project's
\* source root and the file, with the source-root marker, the root file
\* names and the .rs suffix removed; directories above the source root
\* contribute no segment.
C9_ModulePathBelowSrc ==
    Parsed => result.file.module_path = ExpectedModulePath(fsPath)

-----------------------------------------------------------------------------
(* Properties of parse_project and analyze_project *)

\* The files of the tree parse_project is to report: the .rs files outside
\* target directories that can be read, in walk order.
ReportableFiles ==
    SelectSeq(fsTree,
              LAMBDA e : /\ has_rs_extension(e.path)
                         /\ \A i \in 1..Len(e.path) : e.path[i] # "target"
                         /\ e.readable)

\* C6: parse_project never aborts because of one bad file: the returned
\* list has exactly one ParsedFile for every .rs file outside target
\* directories that can be read, in walk order, each the ParsedFile of that
\* file alone.
C6_OneFilePerReadableSource ==
    pc = "parse_project" /\ fsRootExists =>
        /\ result.tag = "Ok"
        /\ Len(result.files) = Len(ReportableFiles)
        /\ \A k \in 1..Len(ReportableFiles) :
            result.files[k] =
                parse_file(fsRoot \o ReportableFiles[k].path, TRUE,
                           ReportableFiles[k].content).file

\* C7: when the project root cannot be traversed at all, analyze_project
\* returns an error result, not Ok with an empty model.
C7_MissingRootIsError ==
    pc = "analyze_project" /\ result.root = fsRoot /\ ~fsRootExists =>
        result.tag = "Err"

-----------------------------------------------------------------------------
(* Properties of normalize_type_name *)

\* C10: normalize_type_name is idempotent: for every type text t,
\* normalize(normalize(t)) = normalize(t).
C10_NormalizeIdempotent ==
    pc = "normalize_type_name" => result.names[2] = result.names[1]

-----------------------------------------------------------------------------
(* The chunk scan as a state machine: one call of split_into_items on one   *)
(* text of the characters the scan distinguishes                             *)

ScanChars == {"fn a", "{", "}", ";", "x"}

ScanTexts == UNION { [1..n -> ScanChars] : n \in 0..MaxScanLen }

InitScan ==
    /\ fsPath = <<"src", "a.rs">>
    /\ fsReadable = TRUE
    /\ fsContent \in ScanTexts
    /\ fsRoot = <<".">>
    /\ fsRootExists = TRUE
    /\ fsTree = <<>>
    /\ gravity = NewGravity
    /\ tyText = <<>>
    /\ pc = "start"
    /\ result = NoResult

NextScan == SplitIntoItems

SpecScan == InitScan /\ [][NextScan]_vars

\* The scanner's locals before it reads character i (0-based) of content.
ScanBefore(content, i) == ScanFrom(SubSeq(content, 1, i), ScanInit, 0)

\* The scan pushes a chunk that ends at character i.
ChunkClosedAt(content, i) ==
    Len(ScanStep(content, ScanBefore(content, i), i).chunks)
        > Len(ScanBefore(content, i).chunks)

\* The scan moves the cut point to just after character i.
CutPointAt(content, i) ==
    /\ ScanBefore(content, i).current_start <= i
    /\ ScanStep(content, ScanBefore(content, i), i).current_start = i + 1

\* The number of brace blocks open after the first k characters of a text
\* without literals: a closing brace that closes nothing is not counted.
RECURSIVE OpenBlocks(_, _)
OpenBlocks(content, k) ==
    IF k = 0 THEN 0
    ELSE LET d == OpenBlocks(content, k - 1) IN
         IF content[k] = "{" THEN d + 1
         ELSE IF content[k] = "}" /\ d > 0 THEN d - 1
         ELSE d

\* Character i (0-based) lies between an opening brace and the closing
\* brace that matches it.
InBracePair(content, i) ==
    \E k \in (i + 2)..Len(content) :
        /\ content[k] = "}"
        /\ OpenBlocks(content, k) < OpenBlocks(content, i + 1)
        /\ OpenBlocks(content, k - 1) >= OpenBlocks(content, i + 1)
        /\ OpenBlocks(content, i + 1) > 0

\* C19: a semicolon closes a chunk only when it is outside every open brace
\* block and the text since the last cut point, left-trimmed, starts with an
\* item-introducing token; and no cut point is placed at a semicolon that
\* lies between an opening brace and its matching closing brace.
C19_SemicolonCutsOnlyAtTopLevel ==
    pc = "split_into_items" =>
        \A i \in 0..(Len(fsContent) - 1) :
            fsContent[i + 1] = ";" =>
                /\ ChunkClosedAt(fsContent, i) =>
                      /\ OpenBlocks(fsContent, i) = 0
                      /\ looks_like_item(
                            CharSlice(fsContent,
                                      ScanBefore(fsContent, i).current_start, i))
                /\ CutPointAt(fsContent, i) => ~InBracePair(fsContent, i)

-----------------------------------------------------------------------------
(* Properties of the analysis *)

\* analyze_project has returned Ok on the tree below fsRoot.
Analyzed ==
    pc = "analyze_project" /\ result.tag = "Ok" /\ result.root = fsRoot
        /\ fsRootExists

\* The tree holds a readable file with this text at this path.
HasFile(p, text) ==
    \E k \in 1..Len(fsTree) :
        fsTree[k] = [path |-> p, readable |-> TRUE, content |-> text]

\* The entry file declares the sibling modules a and b; module a defines
\* the function a and calls it once, from its function b; module b calls a
\* once, from its function b.
SiblingModules ==
    /\ HasFile(<<"src", "lib.rs">>, <<"mod a", ";", "\n", "mod b", ";">>)
    /\ HasFile(<<"src", "a.rs">>,
               <<"fn a", "{", "}", "\n", "fn b", "{", "a()", ";", "}">>)
    /\ HasFile(<<"src", "b.rs">>, <<"fn b", "{", "a()", ";", "}">>)

\* C13: in that project the cross_module_count of the function a is 1: only
\* the one other module that calls it counts, not the call inside its own
\* module and not the number of calls.
C13_OnlyExternalModuleCounts ==
    Analyzed /\ SiblingModules =>
        count_cross_module_callers(gravity, "a") = 1

\* analyze_project has returned Ok, on either root.
Returned == pc = "analyze_project" /\ result.tag = "Ok"

\* The files on disk below the root analysed last.
AnalyzedDisk == DiskOf(result.root, ExistsAt(result.root), TreeAt(result.root))

\* The paths that module declarations lead to from the paths in reached:
\* the file resolved for every module item of a parsed file in reached.
DeclaredFrom(reached) ==
    UNION { { resolve_mod_path(AnalyzedDisk, gravity.files[k].path,
                               gravity.files[k].items[j].name) :
                j \in { i \in 1..Len(gravity.files[k].items) :
                          gravity.files[k].items[i].kind.tag = "Mod" } } :
            k \in { n \in 1..Len(gravity.files) :
                      gravity.files[n].path \in reached } }

\* The paths reachable from the entry file through module declarations.
RECURSIVE ReachableFrom(_)
ReachableFrom(reached) ==
    IF DeclaredFrom(reached) \subseteq reached THEN reached
    ELSE ReachableFrom(reached \cup DeclaredFrom(reached))

Reachable == ReachableFrom({entry_file(AnalyzedDisk, result.root)})

\* The parsed files the traversal from the entry file cannot visit.
UnreachableFiles ==
    { k \in 1..Len(gravity.files) : gravity.files[k].path \notin Reachable }

MaxReachableDistance ==
    CHOOSE m \in { gravity.distance_cache[p] : p \in Reachable } :
        \A p \in Reachable : gravity.distance_cache[p] <= m

\* C14: after analyze_project every parsed file that the traversal from the
\* entry file never visits has distance (largest distance of the reachable
\* files) + 1, which is more than the distance of every reachable file.
C14_UnreachableIsMaxPlusOne ==
    Returned =>
        \A k \in UnreachableFiles :
            /\ gravity.distance_cache[gravity.files[k].path]
                    = MaxReachableDistance + 1
            /\ \A p \in Reachable :
                  gravity.distance_cache[gravity.files[k].path]
                      > gravity.distance_cache[p]

\* An unreachable parsed file beside a reachable module file at distance 1.
C14_Witness ==
    /\ Returned
    /\ UnreachableFiles # {}
    /\ \E k \in 1..Len(gravity.files) :
          /\ gravity.files[k].path \in Reachable
          /\ gravity.distance_cache[gravity.files[k].path] = 1

\* A fresh instance after analyze_project of the root analysed last.
FreshAfterLast ==
    analyze_project(NewGravity, result.root, ExistsAt(result.root),
                    TreeAt(result.root)).gravity

\* C17: after analyze_project has returned on an instance, whatever the
\* instance held before (nothing, or the analysis of the same or of another
\* root), its files, file-to-module map, module tree, impl index, call
\* graph, reference map and distance cache equal those of a fresh instance
\* after analyze_project of the same root alone.
C17_RebuiltFromScratch ==
    pc = "analyze_project" /\ result.tag # "Panic" => gravity = FreshAfterLast

\* The last call ran on an instance that held the analysis of another root,
\* with other files and another distance cache than the call leaves.
C17_Witness ==
    /\ Returned
    /\ result.before # NewGravity
    /\ result.before.files # gravity.files
    /\ result.before.distance_cache # EmptyMap
    /\ DOMAIN result.before.distance_cache # DOMAIN gravity.distance_cache
    /\ gravity.files # <<>>

\* C18: the answer of a query on an analysed project does not depend on the
\* order in which the maps of the analysis are iterated: whichever order
\* get_significant_hubs(n) and get_all_external_symbols meet the keys in,
\* they return the entries the call has returned, in the same order.
C18_QueriesAreDeterministic ==
    /\ pc = "get_significant_hubs" =>
          \A order \in IterationOrders(gravity.call_graph.callers) :
              get_significant_hubs(gravity, result.n, order) = result.hubs
    /\ pc = "get_all_external_symbols" =>
          \A order \in IterationOrders(gravity.reference_map.references) :
              get_all_external_symbols(gravity, order) = result.symbols

\* The text on disk of the k-th parsed file.
TextOfFile(k) == read_to_string_or_default(AnalyzedDisk, gravity.files[k].path)

\* The module declarations written in the texts of the parsed files.
WrittenModules ==
    UNION { { <<k, j>> : j \in { i \in 1..Len(TextOfFile(k)) :
                                   TextOfFile(k)[i] \in ModHeads } } :
            k \in 1..Len(gravity.files) }

\* C20: the container a chunk is wrapped in for its re-parse does not show
\* in the result of an analysis: no item of a parsed file and no child of
\* the module tree carries its name, and the module count is not above the
\* number of module declarations written in the files.
C20_ContainerIsInvisible ==
    Returned =>
        /\ \A k \in 1..Len(all_items(gravity.files, 1)) :
              all_items(gravity.files, 1)[k].name # "__wrapper__"
        /\ \A k \in 1..Len(gravity.module_tree.root.children) :
              gravity.module_tree.root.children[k].name # "__wrapper__"
        /\ total_modules(gravity) <= Cardinality(WrittenModules)

------------------------------------------------------------------------------
(* The scoring queries as a state machine: an analysed project of two      *)
(* files, then one call of score_item, search or get_hotspots              *)

\* ParsedItem
ParsedItem(kind, name, visibility, file_path, attributes, doc_comment) ==
    [ kind |-> kind, name |-> name, visibility |-> visibility,
      span |-> SpanDefault, file_path |-> file_path,
      attributes |-> attributes, doc_comment |-> doc_comment ]

\* The items a file may hold, in the order they are written in it: a plain
\* function, a public function with nested generic types and a doc text, a
\* function with a test attribute, a function named as a test, a public
\* struct with a generic field and a doc text, an inherent impl and a trait
\* impl of the struct, an enum, and a text that did not parse.
ItemPool(file_path) ==
    << ParsedItem([tag |-> "Function", parameters |-> <<>>, return_type |-> None],
                  "a", "Private", file_path, <<>>, None),
       ParsedItem([tag |-> "Function",
                   parameters |->
                     << [name |-> "x", is_self |-> FALSE,
                         ty |-> <<"T", "<", "T", "<", "T", ">", ">">>] >>,
                   return_type |-> Some(<<"T", "<", "T", ">">>)],
                  "a", "Public", file_path, <<"#[inline]">>, Some("b")),
       ParsedItem([tag |-> "Function", parameters |-> <<>>, return_type |-> None],
                  "b", "Private", file_path, <<"#[test]">>, None),
       ParsedItem([tag |-> "Function", parameters |-> <<>>, return_type |-> None],
                  "test_a", "Private", file_path, <<>>, None),
       ParsedItem([tag |-> "Struct", is_tuple |-> FALSE,
                   fields |-> << [ty |-> <<"T", "<", "T", ">">>] >>],
                  "T", "Public", file_path, <<>>, Some("A")),
       ParsedItem([tag |-> "Impl", self_type |-> <<"T">>, trait_name |-> None,
                   methods |-> <<>>],
                  "impl T", "Private", file_path, <<>>, None),
       ParsedItem([tag |-> "Impl", self_type |-> <<"&", "T", "<", "T", ">">>,
                   trait_name |-> Some("Tr"), methods |-> <<>>],
                  "impl T", "Private", file_path, <<>>, None),
       ParsedItem([tag |-> "Enum", variants |-> <<>>],
                  "b", "Private", file_path, <<>>, None),
       ParsedItem([tag |-> "Unknown", raw_text |-> <<"fn a">>,
                   error |-> "Parse error in file"],
                  "a", "Private", file_path, <<>>, None) >>

\* The item lists of a file: any choice of the items of the pool.
ItemLists(file_path) ==
    { SelectSeq([ k \in 1..Len(ItemPool(file_path)) |-> k ], LAMBDA k : k \in chosen) :
        chosen \in SUBSET (1..Len(ItemPool(file_path))) }

\* The numbers of call sites of the name a: none, the bounds of a site
\* (1 and 3), the bounds of neither site nor utility (4 and 10), a utility.
CallCounts == {0, 1, 3, 4, 10, 11}

\* The distances of the first file: a module the entry file declares, and
\* a file far away.
Distances == {1, LargeDistance}

ScoreEntry == <<"proj", "src", "main.rs">>
ScoreModule == <<"proj", "src", "a.rs">>
ScoreTests == <<"proj", "tests", "b.rs">>
ScoreForeign == <<"proj", "src", "b.rs">>

\* The call sites of a in a project where a is called count times: in the
\* first file alone, or in turn in the first file and in the file of the
\* tests directory.
CallSitesOf(count, spread) ==
    [ k \in 1..count |->
        CallSite("a", IF spread /\ k % 2 = 0 THEN ScoreTests ELSE ScoreModule, k) ]

\* The instance after the analysis of a project of two files: the first
\* holds the chosen items of the pool, the second, in the tests directory,
\* a public function a.  The module map and the impl map are built from
\* the files; the call graph and the distances are those drawn.
AnalysedWith(chosen, count, spread, dist) ==
    LET pool == ItemPool(ScoreModule)
        files == << [ path |-> ScoreModule,
                      module_path |-> derive_module_path(ScoreModule),
                      parse_errors |-> <<>>,
                      items |-> [ k \in 1..Len(chosen) |-> pool[chosen[k]] ] ],
                    [ path |-> ScoreTests,
                      module_path |-> derive_module_path(ScoreTests),
                      parse_errors |-> <<>>,
                      items |-> << ItemPool(ScoreTests)[2] >> ] >>
        built == build_impl_map(build_file_module_map(
                    [NewGravity EXCEPT !.files = files]))
    IN  [ built EXCEPT
            !.module_tree = [root |-> ModuleNode("crate", ScoreEntry, <<>>, 0)],
            !.call_graph =
                IF count = 0 THEN CallGraphDefault
                ELSE [ callers |-> Insert(EmptyMap, "a",
                                          CallSitesOf(count, spread)),
                       callees |-> Insert(EmptyMap, "a",
                                          [k \in 1..count |-> "a"]) ],
            !.distance_cache =
                Insert(Insert(Insert(EmptyMap, ScoreEntry, 0), ScoreModule, dist),
                       ScoreTests, dist + 1) ]

InitScore ==
    /\ fsPath = <<>>
    /\ fsReadable = FALSE
    /\ fsContent = <<>>
    /\ fsRoot = <<"proj">>
    /\ fsRootExists = TRUE
    /\ fsTree = <<>>
    /\ tyText = <<>>
    /\ pc = "start"
    /\ result = NoResult
    /\ \E chosen \in ItemLists(ScoreModule), count \in CallCounts,
          spread \in BOOLEAN, dist \in Distances :
          gravity = AnalysedWith(chosen, count, spread, dist)

\* The items score_item is called with: the items of the pool, in a parsed
\* file or in a file the analysis has not seen.
ScoredItems ==
    { ItemPool(p)[k] : p \in {ScoreModule, ScoreTests, ScoreForeign},
                       k \in 1..Len(ItemPool(ScoreModule)) }

\* The queries of search.
Queries == {"", "a", "A", "b", "t", "test"}

\* SemanticGravity::score_item(item)
ScoreItem ==
    /\ pc = "start"
    /\ pc' = "score_item"
    /\ \E item \in ScoredItems :
          result' = [NoResult EXCEPT !.tag = "Ok",
                        !.scores = <<score_item(gravity, item)>>]
    /\ UNCHANGED <<fsPath, fsReadable, fsContent, fsRoot, fsRootExists, fsTree,
                   gravity, tyText>>

\* SemanticGravity::search(query)
Search ==
    /\ pc = "start"
    /\ pc' = "search"
    /\ \E query \in Queries :
          result' = [NoResult EXCEPT !.tag = "Ok", !.query = query,
                        !.scores = search(gravity, query)]
    /\ UNCHANGED <<fsPath, fsReadable, fsContent, fsRoot, fsRootExists, fsTree,
                   gravity, tyText>>

\* SemanticGravity::get_hotspots(n)
GetHotspots ==
    /\ pc = "start"
    /\ pc' = "get_hotspots"
    /\ \E n \in 0..MaxTop :
          result' = [NoResult EXCEPT !.tag = "Ok", !.n = n,
                        !.scores = get_hotspots(gravity, n)]
    /\ UNCHANGED <<fsPath, fsReadable, fsContent, fsRoot, fsRootExists, fsTree,
                   gravity, tyText>>

NextScore == ScoreItem \/ Search \/ GetHotspots

SpecScore == InitScore /\ [][NextScore]_vars

------------------------------------------------------------------------------
(* Properties of the scoring queries *)

\* All items of the analysed files, in file-then-item order.
AllItems == all_items(gravity.files, 1)

\* The number of call sites recorded for a name.
SitesOf(name) ==
    IF name \in DOMAIN gravity.call_graph.callers
    THEN Len(gravity.call_graph.callers[name]) ELSE 0

\* An item with maximally negative factors: a test item, private, without
\* generics and without impls, called from more than ten sites, in a file
\* whose distance is very large or not known.
MaximallyNegative(item) ==
    /\ \/ \E k \in 1..Len(item.attributes) :
             contains(chars(item.attributes[k]), chars("test"))
       \/ contains(to_string_lossy(item.file_path), chars("/tests/"))
       \/ starts_with(chars(item.name), chars("test_"))
    /\ item.visibility = "Private"
    /\ item.kind.tag \notin {"Struct", "Impl"}
    /\ item.kind.tag = "Function" =>
          item.kind.parameters = <<>> /\ item.kind.return_type = None
    /\ chars(item.name) \notin DOMAIN gravity.impl_map
    /\ SitesOf(item.name) > 10
    /\ item.file_path \in DOMAIN gravity.distance_cache =>
          gravity.distance_cache[item.file_path] >= LargeDistance

\* C15: no score that score_item, search or get_hotspots returns is
\* negative, and score_item gives an item with maximally negative factors
\* the score 0.
C15_ScoreNeverNegative ==
    /\ \A k \in 1..Len(result.scores) : result.scores[k].score >= 0
    /\ pc = "score_item" /\ MaximallyNegative(result.scores[1].item) =>
          result.scores[1].score = 0

\* score_item has scored an item with maximally negative factors, whose
\* weighted sum is below 0.
C15_Witness ==
    /\ pc = "score_item"
    /\ MaximallyNegative(result.scores[1].item)
    /\ weighted_sum(result.scores[1].item, result.scores[1].factors) < 0
    /\ result.scores[1].score = 0

\* The score the factor table gives an item with the factors f.
TableScore(item, f) ==
    LET sum == 100 + 50 * f.cross_module_count
                   + (IF item.visibility = "Public" THEN 20 ELSE 0)
                   + 15 * f.generic_depth
                   - (IF f.is_test THEN 80 ELSE 0)
                   - 5 * f.entry_distance
                   + (IF 0 < f.call_count /\ f.call_count <= 3 THEN 30
                      ELSE IF f.call_count > 10 THEN 0 - 20 ELSE 0)
                   + 5 * f.impl_count
                   + 3 * Len(f.trait_impls)
    IN  IF sum > 0 THEN sum ELSE 0

\* C16: the score score_item returns is the one the factor table gives for
\* the factors it reports, and the reported factors are those of the item
\* in the analysis: its call sites, the modules of their files, whether it
\* is a site, its distance, its generic depth, its impls and whether it is
\* a test item.
C16_ScoreFormula ==
    pc = "score_item" =>
        LET item == result.scores[1].item
            f == result.scores[1].factors
        IN  /\ result.scores[1].score = TableScore(item, f)
            /\ f.call_count = SitesOf(item.name)
            /\ f.is_site = (0 < f.call_count /\ f.call_count <= 3)
            /\ f.cross_module_count = count_cross_module_callers(gravity, item.name)
            /\ f.entry_distance =
                  (IF item.file_path \in DOMAIN gravity.distance_cache
                   THEN gravity.distance_cache[item.file_path] ELSE usize_MAX)
            /\ f.generic_depth = estimate_generic_depth(item)
            /\ f.impl_count = get_impl_info(gravity, item.name).impl_count
            /\ f.trait_impls = get_impl_info(gravity, item.name).trait_impls
            /\ f.is_test = is_test_item(item)

\* score_item has scored a public item with nested generics that has ten
\* call sites in two modules: neither a site nor a utility.
C16_Witness ==
    /\ pc = "score_item"
    /\ result.scores[1].score > 0
    /\ result.scores[1].factors.call_count = 10
    /\ result.scores[1].factors.generic_depth = 2
    /\ result.scores[1].item.visibility = "Public"
    /\ result.scores[1].factors.cross_module_count = 2
    /\ ~result.scores[1].factors.is_site

\* The items of a sequence of scores.
ItemsOf(scores) == [ k \in 1..Len(scores) |-> scores[k].item ]

\* Whether the name or the doc text of the item contains the query, case
\* ignored.
Matches(item, query) ==
    \/ contains(to_lowercase(chars(item.name)), to_lowercase(chars(query)))
    \/ (item.doc_comment # None
        /\ contains(to_lowercase(chars(item.doc_comment[1])),
                    to_lowercase(chars(query))))

\* Scores do not increase along the sequence.
NonIncreasing(scores) ==
    \A k \in 1..(Len(scores) - 1) : scores[k].score >= scores[k + 1].score

\* C11: search(query) returns the items whose name or doc text contains the
\* query, case ignored, whatever their kind: as many entries as there are
\* such items, in non-increasing score order, and for every score the
\* entries with that score are the matching items with that score in
\* file-then-item order.
C11_SearchExactAndStable ==
    pc = "search" =>
        LET matching == SelectSeq(AllItems, LAMBDA i : Matches(i, result.query)) IN
        /\ Len(result.scores) = Len(matching)
        /\ NonIncreasing(result.scores)
        /\ \A v \in { result.scores[k].score : k \in 1..Len(result.scores) } :
              ItemsOf(SelectSeq(result.scores, LAMBDA w : w.score = v))
                = SelectSeq(matching,
                            LAMBDA i : score_item(gravity, i).score = v)

\* search has returned an unknown item, a test item and an item that
\* matches by its doc text alone, for a query in another case than the
\* names, with two entries of equal score and two of different scores.
C11_Witness ==
    /\ pc = "search"
    /\ result.query = "A"
    /\ \E k \in 1..Len(result.scores) : result.scores[k].item.kind.tag = "Unknown"
    /\ \E k \in 1..Len(result.scores) : result.scores[k].factors.is_test
    /\ \E k \in 1..Len(result.scores) :
          ~contains(to_lowercase(chars(result.scores[k].item.name)), chars("a"))
    /\ \E k \in 1..(Len(result.scores) - 1) :
          /\ result.scores[k].score = result.scores[k + 1].score
          /\ result.scores[k].item # result.scores[k + 1].item
    /\ \E k \in 1..(Len(result.scores) - 1) :
          result.scores[k].score > result.scores[k + 1].score
    /\ Len(result.scores) < Len(AllItems)

\* Whether the item is a test item: a test attribute, a /tests/ segment in
\* its path, or a name that starts with test_.
IsTest(item) ==
    \/ \E k \in 1..Len(item.attributes) :
          contains(chars(item.attributes[k]), chars("test"))
    \/ contains(to_string_lossy(item.file_path), chars("/tests/"))
    \/ starts_with(chars(item.name), chars("test_"))

\* C12: get_hotspots(n) returns at most n entries, each a function, struct,
\* enum or trait that is no test item, in non-increasing score order.
C12_HotspotsExcludeTests ==
    pc = "get_hotspots" =>
        /\ Len(result.scores) <= result.n
        /\ NonIncreasing(result.scores)
        /\ \A k \in 1..Len(result.scores) :
              /\ result.scores[k].item.kind.tag
                    \in {"Function", "Struct", "Enum", "Trait"}
              /\ ~IsTest(result.scores[k].item)
              /\ ~result.scores[k].factors.is_test

\* get_hotspots has cut its answer to n entries while the files hold a
\* test item of each of the three sorts, one of them with a higher score
\* than every entry returned.
C12_Witness ==
    /\ pc = "get_hotspots"
    /\ result.n = Len(result.scores)
    /\ result.n > 0
    /\ Cardinality({ k \in 1..Len(AllItems) :
                       /\ AllItems[k].kind.tag \in {"Function", "Struct", "Enum", "Trait"}
                       /\ ~IsTest(AllItems[k]) }) > result.n
    /\ \E k \in 1..Len(AllItems) : AllItems[k].attributes = <<"#[test]">>
    /\ \E k \in 1..Len(AllItems) : AllItems[k].name = "test_a"
    /\ \E k \in 1..Len(AllItems) :
          /\ AllItems[k].file_path = ScoreTests
          /\ score_item(gravity, AllItems[k]).score > result.scores[1].score

------------------------------------------------------------------------------
(* Properties of the call graph, the module tree and the reference map *)

\* Every name recorded in the call graph: the keys of callers and the
\* elements of the callees lists.
RecordedNames ==
    DOMAIN gravity.call_graph.callers
    \cup UNION { { gravity.call_graph.callees[c][k] :
                     k \in 1..Len(gravity.call_graph.callees[c]) } :
                 c \in DOMAIN gravity.call_graph.callees }

\* C21: the prelude filter is membership in the allow-list (clone, iter
\* and map are in it, a name of the project is not), and after an analysis
\* no reserved keyword and no member of the allow-list is a key of callers
\* or an element of a callees list.
C21_NoKeywordNoPreludeRecorded ==
    /\ is_prelude_method("clone") /\ is_prelude_method("iter")
    /\ is_prelude_method("map") /\ ~is_prelude_method("my_custom_function")
    /\ Returned =>
          \A name \in RecordedNames :
              name \notin Keywords /\ name \notin PRELUDE_METHODS

\* An analysed file calls the prelude method clone and the keyword-named
\* Some inside a function that also makes a call that is recorded.
C21_Witness ==
    /\ Returned
    /\ \E k \in 1..Len(gravity.files) :
          /\ \E j \in 1..Len(TextOfFile(k)) : TextOfFile(k)[j] = "x.clone()"
          /\ \E j \in 1..Len(TextOfFile(k)) : TextOfFile(k)[j] = "Some(x)"
          /\ \E s \in 1..Len(gravity.call_graph.callers["a"]) :
                /\ gravity.call_graph.callers["a"][s].file = gravity.files[k].path
                /\ gravity.call_graph.callers["a"][s].line = 3

\* The method calls written in the texts of the parsed files; in every
\* text of the model they stand after a function line.
MethodCallsWritten ==
    UNION { { <<k, j>> : j \in { i \in 1..Len(TextOfFile(k)) :
                                   TextOfFile(k)[i] = "x.m()" } } :
            k \in 1..Len(gravity.files) }

\* The entries of the callees lists that name the callee.
CalleeEntries(callee) ==
    UNION { { <<c, k>> : k \in { i \in 1..Len(gravity.call_graph.callees[c]) :
                                   gravity.call_graph.callees[c][i] = callee } } :
            c \in DOMAIN gravity.call_graph.callees }

\* C22: after an analysis, the method m, which the files only call as
\* x.m(), has one call site in callers for every call written and no entry
\* in any callees list, while every name called plainly has as many call
\* sites in callers as entries in the callees lists.
C22_MethodCallOnlyInCallers ==
    Returned =>
        /\ CalleeEntries("m") = {}
        /\ "m" \in DOMAIN gravity.call_graph.callers =>
              Len(gravity.call_graph.callers["m"]) = Cardinality(MethodCallsWritten)
        /\ \A name \in DOMAIN gravity.call_graph.callers \ {"m"} :
              Len(gravity.call_graph.callers[name]) = Cardinality(CalleeEntries(name))

\* The lines of the text on disk of a file of the project analysed last.
LinesOfFile(p) == Lines(read_to_string_or_default(AnalyzedDisk, p))

\* The function name extracted from the last line at or before line n
\* from which one is extracted, if there is such a line.
ContextAt(lines, n) ==
    LET heads == { m \in 1..n : extract_fn_name(lines[m]) # None } IN
    IF heads = {} THEN None
    ELSE extract_fn_name(lines[CHOOSE m \in heads : \A j \in heads : j <= m])

\* The call sites of the call graph.
CallSites ==
    UNION { { gravity.call_graph.callers[name][k] :
                k \in 1..Len(gravity.call_graph.callers[name]) } :
            name \in DOMAIN gravity.call_graph.callers }

\* C23: the caller of every call site is the function name extracted from
\* the last function line at or before the site's line, whatever braces
\* were closed in between, and every plain call on a line that has such a
\* function line at or before it is recorded with that caller.
C23_ContextPersists ==
    Returned =>
        /\ \A site \in CallSites :
              ContextAt(LinesOfFile(site.file), site.line) = Some(site.caller)
        /\ \A k \in 1..Len(gravity.files) :
              \A n \in 1..Len(LinesOfFile(gravity.files[k].path)) :
                 LET lines == LinesOfFile(gravity.files[k].path) IN
                 (ContextAt(lines, n) # None /\ count_matches(lines[n], "a()") > 0)
                 => CallSite(ContextAt(lines, n)[1], gravity.files[k].path, n)
                        \in CallSites

\* A call on the line after the closing brace of the function b, two lines
\* below its header, is recorded with the caller b.
C23_Witness ==
    /\ Returned
    /\ \E site \in CallSites :
          LET lines == LinesOfFile(site.file) IN
          /\ site.caller = "b"
          /\ site.line = 3
          /\ extract_fn_name(lines[2]) = Some("b")
          /\ count_matches(lines[2], "}") = 1
          /\ count_matches(lines[2], "{") = 1
          /\ extract_fn_name(lines[3]) = None

\* C30: the caller of every call site is a function name extracted from a
\* line of the site's own file at or before the site's line, so no call
\* site lies on a line before the first function line of its file.
C30_ContextStaysInFile ==
    Returned =>
        \A site \in CallSites :
            LET lines == LinesOfFile(site.file) IN
            /\ site.line <= Len(lines)
            /\ \E m \in 1..site.line :
                  extract_fn_name(lines[m]) = Some(site.caller)

\* A file that follows a file with a function in the scan starts with a
\* call on a line before its first function line; the call is not recorded,
\* while the call it makes after that function line is.
C30_Witness ==
    /\ Returned
    /\ \E k \in 2..Len(gravity.files) :
          LET lines == LinesOfFile(gravity.files[k].path) IN
          /\ extract_fn_name(read_to_string_or_default(AnalyzedDisk,
                                gravity.files[k - 1].path)) # None
          /\ Len(lines) = 3
          /\ count_matches(lines[1], "a()") = 1
          /\ extract_fn_name(lines[1]) = None
          /\ \A site \in CallSites :
                site.file = gravity.files[k].path => site.line > 1
          /\ \E site \in CallSites :
                site.file = gravity.files[k].path /\ site.line = 3

\* The paths at the end of a chain of n module declarations that starts at
\* the entry file.
RECURSIVE ChainEnds(_)
ChainEnds(n) ==
    IF n = 0 THEN {entry_file(AnalyzedDisk, result.root)}
    ELSE DeclaredFrom(ChainEnds(n - 1))

\* The length of the shortest chain of module declarations from the entry
\* file to a reachable path.
ShortestChain(p) ==
    CHOOSE n \in 0..Cardinality(Reachable) :
        p \in ChainEnds(n) /\ \A m \in 0..(n - 1) : p \notin ChainEnds(m)

\* The entry file declares the modules a and b, in that order, and the
\* file of b declares the module a again.
DeclaredTwice ==
    /\ result.root = fsRoot
    /\ HasFile(<<"src", "lib.rs">>, <<"mod a", ";", "\n", "mod b", ";">>)
    /\ HasFile(<<"src", "b.rs">>, <<"mod a", ";">>)

\* C24: after an analysis the entry file has distance 0 and the distance
\* of every path the traversal reaches is the length of a chain of module
\* declarations from the entry file to it; the frontier is last-in-first-
\* out, so where the entry file declares a and then b, and b declares a,
\* the entry of a that b pushed is popped first and a keeps distance 2,
\* one more than its shortest chain.
C24_DepthFirstDistance ==
    Returned =>
        /\ gravity.distance_cache[entry_file(AnalyzedDisk, result.root)] = 0
        /\ \A p \in Reachable : p \in ChainEnds(gravity.distance_cache[p])
        /\ DeclaredTwice =>
              /\ gravity.distance_cache[fsRoot \o <<"src", "a.rs">>] = 2
              /\ ShortestChain(fsRoot \o <<"src", "a.rs">>) = 1

\* The project where a is declared twice is analysed with a parsed file
\* for a, and a's distance exceeds the length of its shortest chain.
C24_Witness ==
    /\ Returned
    /\ DeclaredTwice
    /\ \E k \in 1..Len(gravity.files) :
          /\ gravity.files[k].path = fsRoot \o <<"src", "a.rs">>
          /\ gravity.distance_cache[gravity.files[k].path]
                > ShortestChain(gravity.files[k].path)

\* The module items of the parsed files, in file-then-item order.
ModItems == SelectSeq(AllItems, LAMBDA i : i.kind.tag = "Mod")

\* The parsed file an item lies in.
FileOf(item) ==
    gravity.files[CHOOSE k \in 1..Len(gravity.files) :
                     gravity.files[k].path = item.file_path]

\* C25: after an analysis the root of the module tree has depth 0 and one
\* child for every module item of the parsed files, in file-then-item
\* order; the child has the item's name, the depth of the declaring file's
\* module path plus one, and no children.
C25_ModuleTreeIsFlat ==
    Returned =>
        LET root == gravity.module_tree.root IN
        /\ root.depth = 0
        /\ Len(root.children) = Len(ModItems)
        /\ \A k \in 1..Len(root.children) :
              /\ root.children[k].name = ModItems[k].name
              /\ root.children[k].depth = Len(FileOf(ModItems[k]).module_path) + 1
              /\ root.children[k].children = <<>>

\* The tree has children declared in two files, at two depths.
C25_Witness ==
    /\ Returned
    /\ \E j, k \in 1..Len(gravity.module_tree.root.children) :
          /\ j < k
          /\ ModItems[j].file_path # ModItems[k].file_path
          /\ gravity.module_tree.root.children[j].depth
                # gravity.module_tree.root.children[k].depth

\* The references of the reference map.
References ==
    UNION { { gravity.reference_map.references[key][k] :
                k \in 1..Len(gravity.reference_map.references[key]) } :
            key \in DOMAIN gravity.reference_map.references }

\* Whether a qualified path is to be recorded: it has no local-scope
\* prefix, and its leading segment is in the list of external namespaces,
\* or else starts with a lowercase letter, is no reserved keyword and is
\* longer than two characters.
LooksExternal(path) ==
    LET leading == segments(path)[1] IN
    /\ leading \notin {"crate", "self"}
    /\ \/ leading \in external_indicators
       \/ /\ is_lowercase(chars(leading)[1])
          /\ leading \notin Keywords
          /\ Len(chars(leading)) > 2

\* C26: after an analysis, a qualified path written on a line of a parsed
\* file has a reference under its full path for that file and line if and
\* only if it looks external; every reference lies under the key equal to
\* its path, and a reference on a line with no function line at or before
\* it has the context <module>.
C26_ReferenceRecordedIffExternal ==
    Returned =>
        /\ \A k \in 1..Len(gravity.files) :
              LET lines == LinesOfFile(gravity.files[k].path) IN
              \A n \in 1..Len(lines) : \A j \in 1..Len(lines[n]) :
                 segments(lines[n][j]) # <<>> =>
                    ( (\E r \in References :
                          /\ r.external_path = lines[n][j]
                          /\ r.file = gravity.files[k].path
                          /\ r.line = n)
                      <=> LooksExternal(lines[n][j]) )
        /\ \A key \in DOMAIN gravity.reference_map.references :
              \A k \in 1..Len(gravity.reference_map.references[key]) :
                 LET r == gravity.reference_map.references[key][k] IN
                 /\ r.external_path = key
                 /\ ContextAt(LinesOfFile(r.file), r.line) = None
                       => r.caller_context = "<module>"

\* The keys of the callers map that are no prelude methods.
HubNames == { name \in DOMAIN gravity.call_graph.callers : ~is_prelude_method(name) }

DeclaredInCycle ==
    /\ result.root = fsRoot
    /\ HasFile(<<"src", "lib.rs">>, <<"mod a", ";">>)
    /\ HasFile(<<"src", "a.rs">>,
               <<"mod b", ";", "\n", "fn a", "{", "a()", ";", "}">>)
    /\ HasFile(<<"src", "b.rs">>, <<"mod a", ";">>)

\* C28: the loop of compute_distances ends after at most one pop for the
\* entry file and one for every module item of the parsed files, whatever
\* the module declarations refer to; after an analysis every parsed file
\* has a distance in the cache, and score_item reads a distance other than
\* usize::MAX for every item of the parsed files.
C28_EveryParsedFileHasDistance ==
    Returned =>
        /\ \E pops \in {loop_pops(<<[path |-> entry_file(AnalyzedDisk, result.root),
                                     dist |-> 0]>>,
                                  {}, AnalyzedDisk, gravity.files)} :
              pops <= 1 + Len(ModItems)
        /\ \A k \in 1..Len(gravity.files) :
              gravity.files[k].path \in DOMAIN gravity.distance_cache
        /\ \A k \in 1..Len(AllItems) :
              \E s \in {score_item(gravity, AllItems[k])} :
                 s.factors.entry_distance # usize_MAX

\* An analysis of the project with the cycle: the traversal went round it
\* (b is at distance 2 and its declaration of a was not followed again),
\* and the parsed files hold an item.
C28_Witness ==
    /\ Returned
    /\ DeclaredInCycle
    /\ Len(gravity.files) = 3
    /\ gravity.distance_cache[fsRoot \o <<"src", "b.rs">>] = 2
    /\ gravity.distance_cache[fsRoot \o <<"src", "a.rs">>] = 1
    /\ Len(AllItems) > 0

-----------------------------------------------------------------------------
(* Properties of the chunks of split_into_items *)

\* split_into_items has returned its chunks.
Split == pc = "split_into_items" /\ result.tag = "Ok"

\* The characters (0-based) at which the loop of the scan pushes a chunk.
ClosedAt == { i \in 0..(Len(fsContent) - 1) : ChunkClosedAt(fsContent, i) }

\* The characters the k-th returned chunk was cut from: the text between
\* the cut point and the k-th character that closes a chunk, or, for a
\* chunk pushed after the loop, the text after the last cut point.
SpanOf(k) ==
    IF k <= Cardinality(ClosedAt)
    THEN LET i == CHOOSE c \in ClosedAt :
                     Cardinality({ d \in ClosedAt : d <= c }) = k
         IN  [from |-> ScanBefore(fsContent, i).current_start, to |-> i]
    ELSE [from |-> ScanFrom(fsContent, ScanInit, 0).current_start,
          to |-> Len(fsContent) - 1]

\* The chunks k.. are slices of the text at or after character `from`, one
\* after the other: each is taken at its first occurrence.
RECURSIVE SlicesInOrder(_, _, _, _)
SlicesInOrder(content, chunks, k, from) ==
    IF k > Len(chunks) THEN TRUE
    ELSE LET fits == { o \in from..(Len(content) - Len(chunks[k].text)) :
                         SubSeq(content, o + 1, o + Len(chunks[k].text))
                             = chunks[k].text }
         IN  /\ fits # {}
             /\ SlicesInOrder(content, chunks, k + 1,
                              (CHOOSE o \in fits : \A p \in fits : o <= p)
                                  + Len(chunks[k].text))

\* The semicolons (0-based) at which the scan moves the cut point and
\* pushes no chunk.
SkippedAt ==
    { i \in 0..(Len(fsContent) - 1) :
        /\ fsContent[i + 1] = ";"
        /\ CutPointAt(fsContent, i)
        /\ ~ChunkClosedAt(fsContent, i) }

\* C29: the chunks split_into_items returns are not blank; they are slices
\* of the text, one after the other without overlap, each the text from
\* the cut point to the character that closed it; their start_line never
\* decreases; no step of the scan moves the cut point back; and the text
\* from the cut point to a semicolon that pushes no chunk lies in no chunk.
C29_ChunksAreOrderedSlices ==
    Split =>
        /\ SlicesInOrder(fsContent, result.chunks, 1, 0)
        /\ Len(result.chunks) \in { Cardinality(ClosedAt), Cardinality(ClosedAt) + 1 }
        /\ \A k \in 1..Len(result.chunks) :
              /\ trim(result.chunks[k].text) # <<>>
              /\ SpanOf(k).from <= SpanOf(k).to
              /\ result.chunks[k].text
                    = CharSlice(fsContent, SpanOf(k).from, SpanOf(k).to)
        /\ \A k \in 1..(Len(result.chunks) - 1) :
              /\ SpanOf(k).to < SpanOf(k + 1).from
              /\ result.chunks[k].start_line <= result.chunks[k + 1].start_line
        /\ \A i \in 0..(Len(fsContent) - 1) :
              ScanBefore(fsContent, i).current_start
                 <= ScanStep(fsContent, ScanBefore(fsContent, i), i).current_start
        /\ \A i \in SkippedAt : \A k \in 1..Len(result.chunks) :
              \/ SpanOf(k).to < ScanBefore(fsContent, i).current_start
              \/ SpanOf(k).from > i

\* Two chunks with different start_line are returned from a text in which
\* a semicolon pushed no chunk.
C29_Witness ==
    /\ Split
    /\ Len(result.chunks) = 2
    /\ result.chunks[1].start_line < result.chunks[2].start_line
    /\ SkippedAt # {}

====
